---- MODULE Spec2Model ----
(***************************************************************************)
(* Provenance-integrity verification of                                    *)
(*   jcaa_2026-02-19/scripts/run_provenance_extended_validation.py         *)
(*   jcaa_2026-02-19/scripts/run_llm_provenance_validation.py              *)
(*                                                                         *)
(* Python values are modelled as tagged pairs <<tag, text>>: a str is      *)
(* <<"str", s>>, an int is <<"int", decimal digits>>, None is              *)
(* <<"null", "None">>.  A dict is a TLA+ function from key strings to      *)
(* values (dict equality does not depend on insertion order, as in         *)
(* Python).  A list is a sequence; Python index i is position i + 1.       *)
(* A SHA-256 digest is modelled as the text "sha256(" canonical JSON ")":  *)
(* the digest is assumed collision free, and no digest of a modelled value *)
(* equals the literal "deadbeef" * 8.                                      *)
(***************************************************************************)
EXTENDS Integers, Sequences, FiniteSets, TLC

VARIABLES
    script,            \* which program runs: "extended" or "llm"
    records,           \* the source records of the stream (list of dict)
    mandatory_fields,  \* the stream's mandatory context field names (list)
    pc,                \* position of the stream evaluation
    prov,              \* eval_stream: one-hop derivatives (prov)
    prov_hop1,         \* run_stream: hop-1 derivatives
    prov_hop2,         \* run_stream: hop-2 derivatives
    source_hashes,     \* [sha256_value(x) for x in source]
    source_by_hash,    \* {h: rec for h, rec in zip(source_hashes, source)}
    hop1_hashes,       \* run_stream: [sha256_value(x) for x in prov_hop1]
    hop1_by_hash,      \* run_stream: {h: rec for h, rec in zip(hop1_hashes, prov_hop1)}
    mut,               \* the mutated copy of the scenario that ran last
    idx,               \* the injected indices of the scenario that ran last
    scenarios,         \* the list of scenario results appended so far
    derived,           \* audit probe: the derivative handed to the audits
    edits,             \* audit probe: number of edits made to the inputs
    verdict,           \* audit probe: what the three audits returned
    inj,               \* index-selection probe: arguments and result
    metrics,           \* eval_stream: the metric locals computed so far
    fn                 \* function probes: arguments and results of one call

vars == <<script, records, mandatory_fields, pc, prov, prov_hop1, prov_hop2,
          source_hashes, source_by_hash, hop1_hashes, hop1_by_hash,
          mut, idx, scenarios, derived, edits, verdict, inj, metrics, fn>>

-----------------------------------------------------------------------------
(* Bounds of the model *)

MaxRecords == 2
MaxEdits == 1
MaxN == 4

-----------------------------------------------------------------------------
(* Python values *)

S(s) == <<"str", s>>
I(digits) == <<"int", digits>>
None == <<"null", "None">>

\* str(v)
Str(v) == S(v[2])

\* bool(v) of a scalar: None, "" and 0 are falsy
Truthy(v) == v # None /\ v # S("") /\ v # I("0")

\* d.get(k, default)
Get(d, k, default) == IF k \in DOMAIN d THEN d[k] ELSE default

\* d[k] = v
Put(d, k, v) == [x \in DOMAIN d \cup {k} |-> IF x = k THEN v ELSE d[x]]

\* a dict without key k (a key the builder never wrote)
Del(d, k) == [x \in DOMAIN d \ {k} |-> d[x]]

EmptyDict == <<>>

Range(s) == {s[i] : i \in 1..Len(s)}

Max2(a, b) == IF a >= b THEN a ELSE b
Min2(a, b) == IF a <= b THEN a ELSE b

-----------------------------------------------------------------------------
(* Canonicalizer and digest *)

\* every key a modelled dict can hold, in the order sort_keys=True gives
KeyOrder == <<"ancestor_source_sha256", "api_link", "generated_at", "generated_by",
              "generated_label", "id", "interpretation", "parent_sha256",
              "summary", "title">>

\* the str payloads json.dumps writes with escapes: a text with double quotes and
\* a text with a backslash
QuotedText == "say \"hi\""
BackslashText == "a\\b"

\* the body of a JSON string literal for a str: '"' becomes '\"', '\' becomes '\\'
Escape(s) ==
    IF s = QuotedText THEN "say \\\"hi\\\"" ELSE
    IF s = BackslashText THEN "a\\\\b" ELSE s

\* a value json.dumps has no encoding for (a set, bytes, an object): it raises
\* TypeError, and canonical_json and sha256_value let that through
Unserializable == <<"set", "{1}">>
Serializable(d) == \A k \in DOMAIN d : d[k][1] \in {"str", "int", "null"}

\* json.dumps of a scalar (of a serializable value)
JsonScalar(v) ==
    IF v[1] = "str" THEN "\"" \o Escape(v[2]) \o "\"" ELSE
    IF v[1] = "int" THEN v[2] ELSE "null"

RECURSIVE JsonMembers(_, _, _)
JsonMembers(d, i, first) ==
    IF i > Len(KeyOrder) THEN ""
    ELSE IF KeyOrder[i] \in DOMAIN d
         THEN (IF first THEN "" ELSE ",")
              \o "\"" \o KeyOrder[i] \o "\":" \o JsonScalar(d[KeyOrder[i]])
              \o JsonMembers(d, i + 1, FALSE)
         ELSE JsonMembers(d, i + 1, first)

\* canonical_json(value) for a dict: keys sorted, separators "," and ":"
canonical_json(d) == "{" \o JsonMembers(d, 1, TRUE) \o "}"

\* sha256_value(value) for a dict
sha256_value(d) == "sha256(" \o canonical_json(d) \o ")"

\* "deadbeef" * 8
DEADBEEF == "deadbeefdeadbeefdeadbeefdeadbeefdeadbeefdeadbeefdeadbeefdeadbeef"

\* a dict as Python holds it: its items in insertion order, keys distinct
AsDict(items) ==
    [k \in {items[i][1] : i \in 1..Len(items)} |->
        items[CHOOSE i \in 1..Len(items) : items[i][1] = k][2]]

\* mutant: sort_keys=False, the items are written in insertion order
sort_keys_off(items) == items

\* sort_keys=True: json.dumps writes sorted(dct.items())
RECURSIVE ItemsFrom(_, _)
ItemsFrom(items, i) ==
    IF i > Len(KeyOrder) THEN <<>>
    ELSE (IF \E j \in 1..Len(items) : items[j][1] = KeyOrder[i]
          THEN <<items[CHOOSE j \in 1..Len(items) : items[j][1] = KeyOrder[i]]>>
          ELSE <<>>)
         \o ItemsFrom(items, i + 1)

sort_keys(items) == ItemsFrom(items, 1)

RECURSIVE ItemsText(_, _)
ItemsText(items, i) ==
    IF i > Len(items) THEN ""
    ELSE (IF i = 1 THEN "" ELSE ",")
         \o "\"" \o items[i][1] \o "\":" \o JsonScalar(items[i][2])
         \o ItemsText(items, i + 1)

\* canonical_json(value) for a dict given with its insertion order
canonical_json_items(items) == "{" \o ItemsText(sort_keys(items), 1) \o "}"

\* sha256_value(value) for a dict given with its insertion order
sha256_value_items(items) == "sha256(" \o canonical_json_items(items) \o ")"

\* the JSON text as the sequence of its tokens; a string token holds the body of
\* the literal, between the quotes
Punct(c) == <<"punct", c>>

ScalarToken(v) ==
    IF v[1] = "str" THEN <<"string", Escape(v[2])>> ELSE
    IF v[1] = "int" THEN <<"number", v[2]>> ELSE <<"literal", "null">>

RECURSIVE MemberTokens(_, _, _)
MemberTokens(d, i, first) ==
    IF i > Len(KeyOrder) THEN <<>>
    ELSE IF KeyOrder[i] \in DOMAIN d
         THEN (IF first THEN <<>> ELSE <<Punct(",")>>)
              \o <<<<"string", Escape(KeyOrder[i])>>, Punct(":"), ScalarToken(d[KeyOrder[i]])>>
              \o MemberTokens(d, i + 1, FALSE)
         ELSE MemberTokens(d, i + 1, first)

RECURSIVE ElementTokens(_, _)
ElementTokens(recs, i) ==
    IF i > Len(recs) THEN <<>>
    ELSE (IF i = 1 THEN <<>> ELSE <<Punct(",")>>)
         \o <<Punct("{")>> \o MemberTokens(recs[i], 1, TRUE) \o <<Punct("}")>>
         \o ElementTokens(recs, i + 1)

\* canonical_json(source) for a list of dicts, token by token
canonical_json_tokens(recs) == <<Punct("[")>> \o ElementTokens(recs, 1) \o <<Punct("]")>>

\* the text the tokens spell
RECURSIVE TokensText(_, _)
TokensText(tokens, i) ==
    IF i > Len(tokens) THEN ""
    ELSE (IF tokens[i][1] = "string" THEN "\"" \o tokens[i][2] \o "\"" ELSE tokens[i][2])
         \o TokensText(tokens, i + 1)

\* mutant: the decoder keeps the body of a string literal as written
Unescape_raw(body) == body

\* the str a JSON string literal's body stands for
Unescape(body) ==
    IF body = Escape(QuotedText) THEN QuotedText ELSE
    IF body = Escape(BackslashText) THEN BackslashText ELSE body

\* json.loads of a scalar token
ParseScalar(token) ==
    IF token[1] = "string" THEN S(Unescape(token[2])) ELSE
    IF token[1] = "number" THEN I(token[2]) ELSE None

\* json.loads of the members of an object, from position pos up to its "}"
RECURSIVE ParseMembers(_, _, _)
ParseMembers(tokens, pos, acc) ==
    IF tokens[pos] = Punct("}") THEN [value |-> acc, next |-> pos + 1]
    ELSE LET at == IF tokens[pos] = Punct(",") THEN pos + 1 ELSE pos
         IN ParseMembers(tokens, at + 3,
                         Put(acc, Unescape(tokens[at][2]), ParseScalar(tokens[at + 2])))

\* json.loads of the elements of an array of objects, up to its "]"
RECURSIVE ParseElements(_, _, _)
ParseElements(tokens, pos, acc) ==
    IF tokens[pos] = Punct("]") THEN acc
    ELSE LET at == IF tokens[pos] = Punct(",") THEN pos + 1 ELSE pos
             obj == ParseMembers(tokens, at + 1, EmptyDict)
         IN ParseElements(tokens, obj.next, Append(acc, obj.value))

\* json.loads(text) for the text of a list of dicts, from its tokens
json_loads(tokens) == ParseElements(tokens, 2, <<>>)

\* how often v occurs in the list
Count(seq, v) == Cardinality({i \in 1..Len(seq) : seq[i] = v})

\* sorted(hs) for a list of digests: the one arrangement of the list's elements
\* that every list with the same elements is sorted to
RECURSIVE SortedFrom(_, _)
SortedFrom(set, hs) ==
    IF set = {} THEN <<>>
    ELSE LET v == CHOOSE w \in set : TRUE
         IN [i \in 1..Count(hs, v) |-> v] \o SortedFrom(set \ {v}, hs)

sorted_hashes(hs) == SortedFrom({hs[i] : i \in 1..Len(hs)}, hs)

RECURSIVE HashesText(_, _)
HashesText(hs, i) ==
    IF i > Len(hs) THEN ""
    ELSE (IF i = 1 THEN "" ELSE ",") \o JsonScalar(S(hs[i])) \o HashesText(hs, i + 1)

\* sha256_value(value) for a list of digests
sha256_value_list(hs) == "sha256([" \o HashesText(hs, 1) \o "])"

-----------------------------------------------------------------------------
(* Lineage builder *)

LineageKeys == <<"generated_label", "generated_by", "generated_at", "parent_sha256">>

\* now_iso(): one timestamp per stream evaluation, never empty
GeneratedAt == "2026-02-19T00:00:00+00:00"

MODEL_NAME == "qwen2.5-coder:1.5b"

\* mutant: out[f] = rec.get(f), a missing field copied as None
RECURSIVE CopyMandatory_none(_, _, _, _)
CopyMandatory_none(out, rec, fields, i) ==
    IF i > Len(fields) THEN out
    ELSE CopyMandatory_none(Put(out, fields[i], Get(rec, fields[i], None)), rec, fields, i + 1)

\* for f in mandatory_fields: out[f] = rec.get(f, "")
RECURSIVE CopyMandatory(_, _, _, _)
CopyMandatory(out, rec, fields, i) ==
    IF i > Len(fields) THEN out
    ELSE CopyMandatory(Put(out, fields[i], Get(rec, fields[i], S(""))), rec, fields, i + 1)

\* mutant: the derivative does not record its parent's fingerprint
transform_provenance_no_parent(rec, fields, parent_hash, generated_at) ==
    CopyMandatory(
        [k \in {"generated_label", "generated_by", "generated_at", "parent_sha256", "summary"} |->
            CASE k = "generated_label" -> S("DERIVED_RECORD")
              [] k = "generated_by" -> S("deterministic_transform_v2")
              [] k = "generated_at" -> S(generated_at)
              [] OTHER -> S("")],
        rec, fields, 1)

transform_provenance(rec, fields, parent_hash, generated_at) ==
    CopyMandatory(
        [k \in {"generated_label", "generated_by", "generated_at", "parent_sha256", "summary"} |->
            CASE k = "generated_label" -> S("DERIVED_RECORD")
              [] k = "generated_by" -> S("deterministic_transform_v2")
              [] k = "generated_at" -> S(generated_at)
              [] k = "parent_sha256" -> S(parent_hash)
              [] OTHER -> S("")],
        rec, fields, 1)

\* transform_naive(rec, stream_name)["summary"]: an f-string over the record's
\* displayed fields (rec['title'] and others); of the modelled fields, the title
transform_naive_summary(rec) == S("summary of " \o Str(rec["title"])[2])

\* set_summary(derivative, source, stream_name)
set_summary(derivative, source) == Put(derivative, "summary", transform_naive_summary(source))

\* run_stream's hop-1 record for one source record and one model output
hop1_prov(src, fields, src_hash, summary) ==
    CopyMandatory(
        [k \in {"generated_label", "generated_by", "generated_at", "parent_sha256", "summary"} |->
            CASE k = "generated_label" -> S("DERIVED_RECORD")
              [] k = "generated_by" -> S("ollama:" \o MODEL_NAME)
              [] k = "generated_at" -> S(GeneratedAt)
              [] k = "parent_sha256" -> S(src_hash)
              [] OTHER -> S(summary)],
        src, fields, 1)

\* run_stream's hop-2 record
hop2_prov(src, fields, src_hash, hop1_hash, interpretation) ==
    CopyMandatory(
        [k \in {"generated_label", "generated_by", "generated_at", "parent_sha256",
                "ancestor_source_sha256", "interpretation"} |->
            CASE k = "generated_label" -> S("DERIVED_RECORD")
              [] k = "generated_by" -> S("ollama:" \o MODEL_NAME)
              [] k = "generated_at" -> S(GeneratedAt)
              [] k = "parent_sha256" -> S(hop1_hash)
              [] k = "ancestor_source_sha256" -> S(src_hash)
              [] OTHER -> S(interpretation)],
        src, fields, 1)

\* [sha256_value(x) for x in recs]
Hashes(recs) == [i \in 1..Len(recs) |-> sha256_value(recs[i])]

\* {h: rec for h, rec in zip(hashes, recs)}: a later pair replaces an earlier one
ByHash(hashes, recs) ==
    [h \in Range(hashes) |->
        recs[CHOOSE i \in 1..Len(recs) :
                /\ hashes[i] = h
                /\ \A j \in 1..Len(recs) : hashes[j] = h => j <= i]]

\* eval_stream's loop: for rec, h in zip(source, source_hashes): d =
\* transform_provenance(...); set_summary(d, rec, stream.name); prov.append(d)
build_prov(source, hashes, fields, generated_at) ==
    [i \in 1..Min2(Len(source), Len(hashes)) |->
        set_summary(transform_provenance(source[i], fields, hashes[i], generated_at),
                    source[i])]

\* mutant: the second build reads the clock again, one second later
rebuild_generated_at_now(generated_at) == "2026-02-19T00:00:01+00:00"

\* the timestamp the second build (prov2) is given: the local generated_at
rebuild_generated_at(generated_at) == generated_at

\* sha256_value(sorted(sha256_value(x) for x in provs))
root_hash(provs) ==
    sha256_value_list(sorted_hashes([i \in 1..Len(provs) |-> sha256_value(provs[i])]))

\* [sha256_value(x) for x in json.loads(canonical_json(source))]
fixity_re(source) ==
    LET parsed == json_loads(canonical_json_tokens(source))
    IN [i \in 1..Len(parsed) |-> sha256_value(parsed[i])]

\* sum(1 for a, b in zip(source_hashes, fixity_re) if a == b), over n >= 1
fixity_stable_count(hashes, re) ==
    Cardinality({i \in 1..Min2(Len(hashes), Len(re)) : hashes[i] = re[i]})

-----------------------------------------------------------------------------
(* Audit policy engine *)

\* mutant: the label is not part of lineage completeness
lineage_complete_no_label(rec) ==
    \A i \in 2..Len(LineageKeys) : Truthy(Get(rec, LineageKeys[i], None))

lineage_complete(rec) ==
    \A i \in 1..Len(LineageKeys) : Truthy(Get(rec, LineageKeys[i], None))

\* mutant: the loop returns after the first mandatory field
ContextPreserved_first_only(d, src, fields) ==
    \A i \in 1..Min2(1, Len(fields)) :
        Str(Get(d, fields[i], S(""))) = Str(Get(src, fields[i], S("")))

\* the mandatory-field loop shared by the audits
ContextPreserved(d, src, fields) ==
    \A i \in 1..Len(fields) :
        Str(Get(d, fields[i], S(""))) = Str(Get(src, fields[i], S("")))

audit_record(src_hashes, src_by_hash, d, fields) ==
    IF ~lineage_complete(d) THEN FALSE ELSE
    LET parent == Str(Get(d, "parent_sha256", S("")))[2] IN
    IF parent \notin src_hashes THEN FALSE ELSE
    IF parent \notin DOMAIN src_by_hash THEN FALSE ELSE
    LET src == src_by_hash[parent] IN
    IF DOMAIN src = {} THEN FALSE ELSE
    ContextPreserved(d, src, fields)

audit_one_hop(src_hashes, src_by_hash, d, fields) ==
    IF ~lineage_complete(d) THEN FALSE ELSE
    LET parent == Str(Get(d, "parent_sha256", S("")))[2] IN
    IF parent \notin src_hashes THEN FALSE ELSE
    IF parent \notin DOMAIN src_by_hash THEN FALSE ELSE
    LET src == src_by_hash[parent] IN
    IF DOMAIN src = {} THEN FALSE ELSE
    ContextPreserved(d, src, fields)

\* mutant: the hop-2 record is audited as a one-hop record against the hop-1 set
audit_two_hop_as_one_hop(src_hashes, src_by_hash, h1_hashes, hop1_map, d, fields) ==
    audit_one_hop(h1_hashes, hop1_map, d, fields)

\* mutant: the hop-1 record's own parent is not compared with the ancestor
audit_two_hop_no_chain(src_hashes, src_by_hash, h1_hashes, hop1_map, d, fields) ==
    IF ~lineage_complete(d) THEN FALSE ELSE
    LET parent == Str(Get(d, "parent_sha256", S("")))[2]
        ancestor == Str(Get(d, "ancestor_source_sha256", S("")))[2] IN
    IF parent \notin h1_hashes THEN FALSE ELSE
    IF ancestor \notin src_hashes THEN FALSE ELSE
    IF parent \notin DOMAIN hop1_map THEN FALSE ELSE
    IF DOMAIN hop1_map[parent] = {} THEN FALSE ELSE
    IF ancestor \notin DOMAIN src_by_hash THEN FALSE ELSE
    LET src == src_by_hash[ancestor] IN
    IF DOMAIN src = {} THEN FALSE ELSE
    ContextPreserved(d, src, fields)

\* mutant: the mandatory fields are compared with the hop-1 record
audit_two_hop_fidelity_hop1(src_hashes, src_by_hash, h1_hashes, hop1_map, d, fields) ==
    IF ~lineage_complete(d) THEN FALSE ELSE
    LET parent == Str(Get(d, "parent_sha256", S("")))[2]
        ancestor == Str(Get(d, "ancestor_source_sha256", S("")))[2] IN
    IF parent \notin h1_hashes THEN FALSE ELSE
    IF ancestor \notin src_hashes THEN FALSE ELSE
    IF parent \notin DOMAIN hop1_map THEN FALSE ELSE
    LET hop1 == hop1_map[parent] IN
    IF DOMAIN hop1 = {} THEN FALSE ELSE
    IF Str(Get(hop1, "parent_sha256", S("")))[2] # ancestor THEN FALSE ELSE
    IF ancestor \notin DOMAIN src_by_hash THEN FALSE ELSE
    IF DOMAIN src_by_hash[ancestor] = {} THEN FALSE ELSE
    ContextPreserved(d, hop1, fields)

\* mutant: the parent may resolve in the source set as well
audit_two_hop_any_parent(src_hashes, src_by_hash, h1_hashes, hop1_map, d, fields) ==
    IF ~lineage_complete(d) THEN FALSE ELSE
    LET parent == Str(Get(d, "parent_sha256", S("")))[2]
        ancestor == Str(Get(d, "ancestor_source_sha256", S("")))[2] IN
    IF parent \notin h1_hashes \cup src_hashes THEN FALSE ELSE
    IF ancestor \notin src_hashes THEN FALSE ELSE
    IF parent \in DOMAIN hop1_map /\ DOMAIN hop1_map[parent] # {}
          /\ Str(Get(hop1_map[parent], "parent_sha256", S("")))[2] # ancestor THEN FALSE ELSE
    IF ancestor \notin DOMAIN src_by_hash THEN FALSE ELSE
    LET src == src_by_hash[ancestor] IN
    IF DOMAIN src = {} THEN FALSE ELSE
    ContextPreserved(d, src, fields)

audit_two_hop(src_hashes, src_by_hash, h1_hashes, hop1_map, d, fields) ==
    IF ~lineage_complete(d) THEN FALSE ELSE
    LET parent == Str(Get(d, "parent_sha256", S("")))[2]
        ancestor == Str(Get(d, "ancestor_source_sha256", S("")))[2] IN
    IF parent \notin h1_hashes THEN FALSE ELSE
    IF ancestor \notin src_hashes THEN FALSE ELSE
    IF parent \notin DOMAIN hop1_map THEN FALSE ELSE
    LET hop1 == hop1_map[parent] IN
    IF DOMAIN hop1 = {} THEN FALSE ELSE
    IF Str(Get(hop1, "parent_sha256", S("")))[2] # ancestor THEN FALSE ELSE
    IF ancestor \notin DOMAIN src_by_hash THEN FALSE ELSE
    LET src == src_by_hash[ancestor] IN
    IF DOMAIN src = {} THEN FALSE ELSE
    ContextPreserved(d, src, fields)

\* what a call of an audit ends in: the text of the bool it returns
PyBool(b) == IF b THEN "True" ELSE "False"

\* mutant: the field loop reads derived[f], which raises KeyError for a
\* derivative that lacks the field
audit_record_outcome_indexing(src_hashes, src_by_hash, d, fields) ==
    LET parent == Str(Get(d, "parent_sha256", S("")))[2] IN
    IF /\ lineage_complete(d)
       /\ parent \in src_hashes
       /\ parent \in DOMAIN src_by_hash
       /\ DOMAIN src_by_hash[parent] # {}
       /\ Len(fields) >= 1
       /\ fields[1] \notin DOMAIN d
    THEN "KeyError"
    ELSE PyBool(audit_record(src_hashes, src_by_hash, d, fields))

\* how a call of audit_record ends.  Every read of derived and of src is
\* dict.get with a default, every conversion is str(), every lookup by
\* fingerprint is `in` or dict.get: no step raises, the call returns a bool.
audit_record_outcome(src_hashes, src_by_hash, d, fields) ==
    PyBool(audit_record(src_hashes, src_by_hash, d, fields))

audit_one_hop_outcome(src_hashes, src_by_hash, d, fields) ==
    PyBool(audit_one_hop(src_hashes, src_by_hash, d, fields))

audit_two_hop_outcome(src_hashes, src_by_hash, h1_hashes, hop1_map, d, fields) ==
    PyBool(audit_two_hop(src_hashes, src_by_hash, h1_hashes, hop1_map, d, fields))

-----------------------------------------------------------------------------
(* Fault injector and metrics *)

\* sorted(...) of a set of integers
RECURSIVE Sorted(_)
Sorted(set) ==
    IF set = {} THEN <<>>
    ELSE LET m == CHOOSE x \in set : \A y \in set : x <= y
         IN <<m>> \o Sorted(set \ {m})

\* every order rng.shuffle can leave list(range(n)) in
Shuffles(n) == {p \in [1..n -> 0..(n - 1)] : \A a, b \in 1..n : a # b => p[a] # p[b]}

\* int(n * frac) for a fraction frac = <<numerator, denominator>>: int()
\* truncates toward zero
IntTimes(n, frac) ==
    IF n * frac[1] >= 0 THEN (n * frac[1]) \div frac[2]
    ELSE 0 - ((0 - n * frac[1]) \div frac[2])

\* mutant: the selection size is rounded up and has no floor of one
inject_indices_ceil(n, frac, shuffled) ==
    LET k == (n * frac[1] + frac[2] - 1) \div frac[2]
    IN Sorted({shuffled[j] : j \in 1..Min2(k, n)})

\* mutant: the fraction is 0.10 whatever the argument
inject_indices_tenth(n, frac, shuffled) ==
    LET k == Max2(1, IntTimes(n, <<1, 10>>))
    IN Sorted({shuffled[j] : j \in 1..Min2(k, n)})

\* inject_indices(n, frac, seed), with the seeded shuffle's outcome as argument
inject_indices(n, frac, shuffled) ==
    LET k == Max2(1, IntTimes(n, frac))
    IN Sorted({shuffled[j] : j \in 1..Min2(k, n)})

Rate(a, b) == [null |-> FALSE, num |-> a, den |-> b]
NullRate == [null |-> TRUE, num |-> 0, den |-> 1]

\* The quotients above are Python floats: IEEE-754 doubles, each operation
\* rounded to nearest, ties to even.  A double is its significand, MantissaBits
\* binary digits b1 b2 ... with b1 = 1, and an exponent e, for the value
\* 0.b1b2... * 2^e; zero has no digits.
MantissaBits == 53

FloatZero == [m |-> <<>>, e |-> 0]
FloatOne == [m |-> [i \in 1..MantissaBits |-> IF i = 1 THEN 1 ELSE 0], e |-> 1]

\* the next k binary digits of r / b for a remainder 0 <= r < b
RECURSIVE DivDigits(_, _, _)
DivDigits(r, b, k) ==
    IF k = 0 THEN <<>>
    ELSE IF 2 * r >= b THEN <<1>> \o DivDigits(2 * r - b, b, k - 1)
    ELSE <<0>> \o DivDigits(2 * r, b, k - 1)

\* the remainder left after k digits
RECURSIVE DivRem(_, _, _)
DivRem(r, b, k) ==
    IF k = 0 THEN r
    ELSE IF 2 * r >= b THEN DivRem(2 * r - b, b, k - 1)
    ELSE DivRem(2 * r, b, k - 1)

\* the zero digits of r / b before its first one, 0 < r < b
RECURSIVE LeadZeros(_, _)
LeadZeros(r, b) == IF 2 * r >= b THEN 0 ELSE 1 + LeadZeros(2 * r, b)

RECURSIVE Pow2(_)
Pow2(k) == IF k = 0 THEN 1 ELSE 2 * Pow2(k - 1)

\* digits + 1, as long as digits; all ones wrap to zeros (the caller raises
\* the exponent)
RECURSIVE Increment(_, _)
Increment(digits, i) ==
    IF i = 0 THEN digits
    ELSE IF digits[i] = 0 THEN [digits EXCEPT ![i] = 1]
    ELSE Increment([digits EXCEPT ![i] = 0], i - 1)

AllOnes(digits) == \A i \in 1..Len(digits) : digits[i] = 1

\* round a significand of any length, first digit 1, to MantissaBits digits
RoundFloat(digits, e) ==
    LET padded == digits \o [i \in 1..(MantissaBits - Len(digits)) |-> 0]
        kept == SubSeq(padded, 1, MantissaBits)
        guard == Len(padded) > MantissaBits /\ padded[MantissaBits + 1] = 1
        sticky == \E i \in (MantissaBits + 2)..Len(padded) : padded[i] = 1
        up == guard /\ (sticky \/ kept[MantissaBits] = 1)
    IN IF ~up THEN [m |-> kept, e |-> e]
       ELSE IF AllOnes(kept) THEN [m |-> FloatOne.m, e |-> e + 1]
       ELSE [m |-> Increment(kept, MantissaBits), e |-> e]

\* a / b for integers 0 <= a <= b, b >= 1: the quotient rounded once
FloatDiv(a, b) ==
    IF a = 0 THEN FloatZero
    ELSE IF a = b THEN FloatOne
    ELSE LET z == LeadZeros(a, b)
             r == a * Pow2(z)
             digits == DivDigits(r, b, MantissaBits)
             rest == DivRem(r, b, MantissaBits)
             \* the digits after the kept ones: more than, exactly, or less than half
             tail == IF 2 * rest > b THEN <<1, 1>> ELSE IF 2 * rest = b THEN <<1>>
                     ELSE IF rest > 0 THEN <<0, 1>> ELSE <<>>
         IN RoundFloat(digits \o tail, 0 - z)

\* the binary digits of an integer k >= 1
RECURSIVE IntDigits(_)
IntDigits(k) == IF k = 0 THEN <<>> ELSE IntDigits(k \div 2) \o <<k % 2>>

\* float(k) for an integer 0 <= k < 2^53
FloatOfInt(k) == IF k = 0 THEN FloatZero ELSE RoundFloat(IntDigits(k), Len(IntDigits(k)))

\* the digits of n * (digits as an integer), last digit first, then the carry
RECURSIVE MulDigits(_, _, _, _)
MulDigits(digits, n, i, carry) ==
    IF i = 0 THEN IntDigits(carry)
    ELSE LET t == n * digits[i] + carry
         IN IF t % 2 = 1 THEN MulDigits(digits, n, i - 1, t \div 2) \o <<1>>
            ELSE MulDigits(digits, n, i - 1, t \div 2) \o <<0>>

\* n * x for an integer n >= 0 and a double x: the exact product rounded once
FloatMulInt(n, x) ==
    IF n = 0 \/ x = FloatZero THEN FloatZero
    ELSE LET product == MulDigits(x.m, n, MantissaBits, 0)
         IN RoundFloat(product, x.e + Len(product) - MantissaBits)

\* the sum of two digit strings of one length, with the carry out in front
RECURSIVE AddDigits(_, _, _, _)
AddDigits(a, b, i, carry) ==
    IF i = 0 THEN (IF carry = 1 THEN <<1>> ELSE <<>>)
    ELSE LET t == a[i] + b[i] + carry
         IN IF t % 2 = 1 THEN AddDigits(a, b, i - 1, t \div 2) \o <<1>>
            ELSE AddDigits(a, b, i - 1, t \div 2) \o <<0>>

\* x + y for doubles x, y >= 0: the exact sum rounded once
FloatAdd(x, y) ==
    IF x = FloatZero THEN y
    ELSE IF y = FloatZero THEN x
    ELSE LET hi == IF x.e >= y.e THEN x ELSE y
             lo == IF x.e >= y.e THEN y ELSE x
             d == hi.e - lo.e
             a == hi.m \o [i \in 1..d |-> 0]
             b == [i \in 1..d |-> 0] \o lo.m
             sum == AddDigits(a, b, Len(a), 0)
         IN RoundFloat(sum, hi.e + Len(sum) - Len(a))

\* the double a rate is: its numerator divided by its denominator
FloatOf(rate) == FloatDiv(rate.num, rate.den)

\* failed = [i for i, d in enumerate(mutated) if not check(d)], given the list
\* of the audit's answers [check(d) for d in mutated]
Failed(answers) == Sorted({i \in 0..(Len(answers) - 1) : ~answers[i + 1]})

\* mutant: every failure counts as a detection
DetectionRecall_all_failures(injset, fail) ==
    IF injset # {} THEN Rate(Cardinality(fail), Cardinality(injset))
    ELSE NullRate

\* recall = len(inj & fail) / len(inj), or None without injected indices
DetectionRecall(injset, fail) ==
    IF injset # {} THEN Rate(Cardinality(injset \cap fail), Cardinality(injset))
    ELSE NullRate

\* mutant: every failure counts as a false positive
FalsePositiveRate_all_failures(n, injset, fail) ==
    IF injset # {}
    THEN Rate(Cardinality(fail), Max2(1, n - Cardinality(injset)))
    ELSE Rate(Cardinality(fail), Max2(1, n))

\* fp = len([i for i in fail if i not in inj]) / max(1, n - len(inj)), or
\* len(fail) / max(1, n) without injected indices
FalsePositiveRate(n, injset, fail) ==
    IF injset # {}
    THEN Rate(Cardinality(fail \ injset), Max2(1, n - Cardinality(injset)))
    ELSE Rate(Cardinality(fail), Max2(1, n))

\* mutant: the pass rate counts the records that were not injected
scenario_result_pass_not_injected(name, mutated, injected_idxs, answers) ==
    LET n == Len(mutated)
        failed == Failed(answers)
    IN [scenario |-> name,
        injected_count |-> Len(injected_idxs),
        failed_count |-> Len(failed),
        audit_pass_rate |-> Rate(n - Len(injected_idxs), n),
        audit_fail_rate |-> Rate(Len(failed), n),
        detection_recall |-> DetectionRecall(Range(injected_idxs), Range(failed)),
        false_positive_rate |-> FalsePositiveRate(n, Range(injected_idxs), Range(failed))]

\* scenario_result(name, mutated, injected_idxs, check_fn), given the answers of
\* check_fn on the records of mutated; n = len(mutated) >= 1
scenario_result(name, mutated, injected_idxs, answers) ==
    LET n == Len(mutated)
        failed == Failed(answers)
    IN [scenario |-> name,
        injected_count |-> Len(injected_idxs),
        failed_count |-> Len(failed),
        audit_pass_rate |-> Rate(n - Len(failed), n),
        audit_fail_rate |-> Rate(Len(failed), n),
        detection_recall |-> DetectionRecall(Range(injected_idxs), Range(failed)),
        false_positive_rate |-> FalsePositiveRate(n, Range(injected_idxs), Range(failed))]

\* mutant: the record after each selected one is the one written to
Mutate_shifted(recs, injected_idxs, key, values) ==
    [p \in 1..Len(recs) |->
        IF ((p - 2) % Len(recs)) \in Range(injected_idxs)
        THEN Put(recs[p], key, values[p]) ELSE recs[p]]

\* mut = [dict(x) for x in recs]; for i in idx: mut[i][key] = values[i]
Mutate(recs, injected_idxs, key, values) ==
    [p \in 1..Len(recs) |->
        IF (p - 1) \in Range(injected_idxs) THEN Put(recs[p], key, values[p]) ELSE recs[p]]

\* mutant: the list is copied, its dicts are shared (mut = list(recs))
CopyAndMutate_shared(recs, injected_idxs, key, values) ==
    [mut |-> Mutate(recs, injected_idxs, key, values),
     original |-> Mutate(recs, injected_idxs, key, values)]

\* mut = [dict(x) for x in recs]; for i in idx: mut[i][key] = ...: the list
\* written to, and recs after the writes.  dict(x) is a new dict whose values
\* are immutable scalars, so no write to mut[i] reaches recs[i].
CopyAndMutate(recs, injected_idxs, key, values) ==
    [mut |-> Mutate(recs, injected_idxs, key, values),
     original |-> recs]

-----------------------------------------------------------------------------
(* The stream's inputs *)

\* source records as load_nyc, load_cma and load_aic build them: every field
\* present, every value a str, possibly ""
LoaderRecords ==
    { [k \in {"id", "title", "api_link"} |-> IF k = "api_link" THEN S(BackslashText) ELSE S("a")],
      [k \in {"id", "title", "api_link"} |->
          IF k = "id" THEN S("b") ELSE IF k = "title" THEN S("") ELSE S(QuotedText)] }

\* source records as load_stream_records can return them: any JSON objects,
\* the empty object included, with str, int or missing values
SourceRecords ==
    LoaderRecords \cup
    { EmptyDict,
      [k \in {"id"} |-> S("a")],
      [k \in {"id"} |-> S("")],
      [k \in {"id"} |-> I("5")] }

LoaderRecordLists == UNION {[1..n -> LoaderRecords] : n \in 0..MaxRecords}

RecordLists == UNION {[1..n -> SourceRecords] : n \in 0..MaxRecords}

MandatoryLists == {<<>>, <<"id">>, <<"title", "id">>}

\* the texts llm_generate can return (whitespace-normalised, never empty)
LlmTexts == {"s1", "s2"}
LlmInterpretations == {"i1"}

source_hash_set == Range(source_hashes)
hop1_hash_set == Range(hop1_hashes)

N == Len(records)

\* the audit each program gives scenario_result
check_one_hop(d) == audit_record(source_hash_set, source_by_hash, d, mandatory_fields)
check_two_hop(d) ==
    audit_two_hop(source_hash_set, source_by_hash, hop1_hash_set, hop1_by_hash,
                  d, mandatory_fields)

\* the audit the running program scores its scenarios with
CheckOf(d) == IF script = "extended" THEN check_one_hop(d) ELSE check_two_hop(d)

\* [check_fn(rec) for rec in recs]
Answers(recs) == [p \in 1..Len(recs) |-> CheckOf(recs[p])]

-----------------------------------------------------------------------------
(* Stream evaluation: eval_stream + run_failure_scenarios ("extended") and   *)
(* run_stream ("llm")                                                        *)

NoProbe == [one |-> FALSE, two |-> FALSE, rec |-> FALSE]
NoInj == [n |-> 0, frac |-> <<0, 1>>, shuffled |-> <<>>, out |-> <<>>]
NoMetrics == [fixity_stability_rate |-> NullRate, root1 |-> "", root2 |-> "",
              provenance_reproducible_root_hash |-> FALSE]
NoCall == [call |-> "none"]

Init ==
    /\ \/ script = "extended" /\ records \in LoaderRecordLists
       \/ script = "llm" /\ records \in RecordLists
    /\ mandatory_fields \in MandatoryLists
    /\ pc = "start"
    /\ prov = <<>>
    /\ prov_hop1 = <<>>
    /\ prov_hop2 = <<>>
    /\ source_hashes = <<>>
    /\ source_by_hash = EmptyDict
    /\ hop1_hashes = <<>>
    /\ hop1_by_hash = EmptyDict
    /\ mut = <<>>
    /\ idx = <<>>
    /\ scenarios = <<>>
    /\ derived = EmptyDict
    /\ edits = 0
    /\ verdict = NoProbe
    /\ inj = NoInj
    /\ metrics = NoMetrics
    /\ fn = NoCall

probe_vars == <<derived, edits, verdict, inj, fn>>
hash_vars == <<source_hashes, source_by_hash, hop1_hashes, hop1_by_hash>>
input_vars == <<script, records, mandatory_fields>>

\* [sha256_value(x) for x in source] returns only if every record serializes
AllSerializable(recs) == \A i \in 1..Len(recs) : Serializable(recs[i])

\* eval_stream up to the call of run_failure_scenarios.  The first statement
\* fingerprints every record (line 360), with no try around it.  The metrics
\* computed on the way divide by n (line 372) and by n - len(tamper_idxs) (line 401) and read
\* mandatory_fields[0] (line 395); otherwise they do not touch prov.
EvalStreamBuild ==
    /\ pc = "start"
    /\ script = "extended"
    /\ LET hs == Hashes(records)
           generated_at == GeneratedAt
           built == build_prov(records, hs, mandatory_fields, generated_at)
           prov2 == build_prov(records, hs, mandatory_fields,
                               rebuild_generated_at(generated_at))
           root1 == root_hash(built)
           root2 == root_hash(prov2)
       IN
       IF ~AllSerializable(records) \/ N = 0 \/ mandatory_fields = <<>>
             \/ N - Len(inject_indices(N, <<1, 10>>, [i \in 1..N |-> i - 1])) = 0
       THEN /\ pc' = "raised"
            /\ UNCHANGED <<prov, source_hashes, source_by_hash, metrics>>
       ELSE /\ pc' = "baseline"
            /\ source_hashes' = hs
            /\ source_by_hash' = ByHash(hs, records)
            /\ prov' = built
            /\ metrics' = [fixity_stability_rate |->
                               Rate(fixity_stable_count(hs, fixity_re(records)), N),
                           root1 |-> root1,
                           root2 |-> root2,
                           provenance_reproducible_root_hash |-> (root1 = root2)]
    /\ UNCHANGED <<input_vars, prov_hop1, prov_hop2, hop1_hashes, hop1_by_hash,
                   mut, idx, scenarios, probe_vars>>

\* run_stream up to the scenarios: the fingerprints of the records (line 271),
\* the loop over the records (two model calls each) and the rates, which divide
\* by n (line 328)
RunStreamBuild ==
    /\ pc = "start"
    /\ script = "llm"
    /\ \E summary \in [1..N -> LlmTexts], interpretation \in [1..N -> LlmInterpretations] :
         LET hs == Hashes(records)
             h1 == [i \in 1..N |->
                       hop1_prov(records[i], mandatory_fields, hs[i], summary[i])]
             h1h == Hashes(h1)
             h2 == [i \in 1..N |->
                       hop2_prov(records[i], mandatory_fields, hs[i], h1h[i], interpretation[i])]
         IN IF ~AllSerializable(records) \/ N = 0
            THEN /\ pc' = "raised"
                 /\ UNCHANGED <<prov_hop1, prov_hop2, hash_vars>>
            ELSE /\ pc' = "baseline"
                 /\ source_hashes' = hs
                 /\ source_by_hash' = ByHash(hs, records)
                 /\ prov_hop1' = h1
                 /\ prov_hop2' = h2
                 /\ hop1_hashes' = h1h
                 /\ hop1_by_hash' = ByHash(h1h, h1)
    /\ UNCHANGED <<input_vars, prov, mut, idx, scenarios, probe_vars, metrics>>

\* one fault scenario: select, copy, mutate, score, append.  The scenario works
\* on the derivative list of the running program (prov_records or prov_hop2).
ScenarioStep(shuffled, name, next, frac, recs, key, values) ==
    LET i == inject_indices(N, frac, shuffled)
        after == CopyAndMutate(recs, i, key, values)
    IN /\ idx' = i
       /\ mut' = after.mut
       /\ prov' = IF script = "extended" THEN after.original ELSE prov
       /\ prov_hop2' = IF script = "llm" THEN after.original ELSE prov_hop2
       /\ scenarios' = Append(scenarios,
                              scenario_result(name, after.mut, i, Answers(after.mut)))
       /\ pc' = next

RunScenario(name, next, frac, recs, key, values) ==
    \E shuffled \in Shuffles(N) : ScenarioStep(shuffled, name, next, frac, recs, key, values)

Frame == UNCHANGED <<input_vars, prov_hop1, hash_vars, probe_vars, metrics>>

BaselineProvenance ==
    /\ pc = "baseline" /\ script = "extended"
    /\ idx' = <<>>
    /\ mut' = prov
    /\ UNCHANGED <<prov, prov_hop2>>
    /\ scenarios' = Append(scenarios, scenario_result("baseline_provenance", prov, <<>>, Answers(prov)))
    /\ pc' = "orphan"
    /\ Frame

OrphanParentLink ==
    /\ pc = "orphan" /\ script = "extended"
    /\ RunScenario("orphan_parent_link", "missing_by", <<1, 10>>, prov,
                   "parent_sha256", [p \in 1..N |-> S(DEADBEEF)])
    /\ Frame

MissingGeneratedBy ==
    /\ pc = "missing_by" /\ script = "extended"
    /\ RunScenario("missing_generated_by", "erasure", <<1, 10>>, prov,
                   "generated_by", [p \in 1..N |-> S("")])
    /\ Frame

MandatoryContextErasure ==
    /\ pc = "erasure" /\ script = "extended"
    /\ IF mandatory_fields = <<>>
       THEN pc' = "raised" /\ UNCHANGED <<idx, mut, scenarios, prov, prov_hop2>>
       ELSE RunScenario("mandatory_context_erasure", "label", <<1, 10>>, prov,
                        mandatory_fields[1], [p \in 1..N |-> S("")])
    /\ Frame

GeneratedLabelStripped ==
    /\ pc = "label" /\ script = "extended"
    /\ RunScenario("generated_label_stripped", "done", <<1, 10>>, prov,
                   "generated_label", [p \in 1..N |-> S("")])
    /\ Frame

TwoHopBaseline ==
    /\ pc = "baseline" /\ script = "llm"
    /\ idx' = <<>>
    /\ mut' = prov_hop2
    /\ UNCHANGED <<prov, prov_hop2>>
    /\ scenarios' = Append(scenarios,
                           scenario_result("two_hop_baseline_provenance", prov_hop2, <<>>, Answers(prov_hop2)))
    /\ pc' = "orphan"
    /\ Frame

TwoHopOrphanParentLink ==
    /\ pc = "orphan" /\ script = "llm"
    /\ RunScenario("two_hop_orphan_parent_link", "ancestor", <<1, 5>>, prov_hop2,
                   "parent_sha256", [p \in 1..N |-> S(DEADBEEF)])
    /\ Frame

TwoHopAncestorMismatch ==
    /\ pc = "ancestor" /\ script = "llm"
    /\ RunScenario("two_hop_ancestor_mismatch", "erasure", <<1, 5>>, prov_hop2,
                   "ancestor_source_sha256", [p \in 1..N |-> S(source_hashes[(p % N) + 1])])
    /\ Frame

TwoHopContextErasure ==
    /\ pc = "erasure" /\ script = "llm"
    /\ IF mandatory_fields = <<>>
       THEN pc' = "raised" /\ UNCHANGED <<idx, mut, scenarios, prov, prov_hop2>>
       ELSE RunScenario("two_hop_context_erasure", "label", <<1, 5>>, prov_hop2,
                        mandatory_fields[1], [p \in 1..N |-> S("")])
    /\ Frame

TwoHopGeneratedLabelStripped ==
    /\ pc = "label" /\ script = "llm"
    /\ RunScenario("two_hop_generated_label_stripped", "done", <<1, 5>>, prov_hop2,
                   "generated_label", [p \in 1..N |-> S("")])
    /\ Frame

Next ==
    \/ EvalStreamBuild
    \/ RunStreamBuild
    \/ BaselineProvenance
    \/ OrphanParentLink
    \/ MissingGeneratedBy
    \/ MandatoryContextErasure
    \/ GeneratedLabelStripped
    \/ TwoHopBaseline
    \/ TwoHopOrphanParentLink
    \/ TwoHopAncestorMismatch
    \/ TwoHopContextErasure
    \/ TwoHopGeneratedLabelStripped

Spec == Init /\ [][Next]_vars

-----------------------------------------------------------------------------
(* The pipeline on batches in which a record may hold an unserializable      *)
(* value                                                                     *)

BadRecord == [k \in {"id", "title"} |-> IF k = "id" THEN S("c") ELSE Unserializable]

BadCount(recs) == Cardinality({i \in 1..Len(recs) : ~Serializable(recs[i])})

\* batches of loaded records and the bad one; the longest batches are the ones
\* with one bad record among good ones
EncodingRecordLists ==
    {recs \in UNION {[1..n -> LoaderRecords \cup {BadRecord}] : n \in 1..(MaxRecords + 1)} :
        Len(recs) > MaxRecords => BadCount(recs) = 1}

InitEncoding ==
    /\ script \in {"extended", "llm"}
    /\ records \in EncodingRecordLists
    /\ mandatory_fields \in MandatoryLists
    /\ pc = "start"
    /\ prov = <<>>
    /\ prov_hop1 = <<>>
    /\ prov_hop2 = <<>>
    /\ source_hashes = <<>>
    /\ source_by_hash = EmptyDict
    /\ hop1_hashes = <<>>
    /\ hop1_by_hash = EmptyDict
    /\ mut = <<>>
    /\ idx = <<>>
    /\ scenarios = <<>>
    /\ derived = EmptyDict
    /\ edits = 0
    /\ verdict = NoProbe
    /\ inj = NoInj
    /\ metrics = NoMetrics
    /\ fn = NoCall

SpecEncoding == InitEncoding /\ [][Next]_vars

-----------------------------------------------------------------------------
(* The audits as functions: a derivative that run_stream built is handed to  *)
(* the three audits, as built or after a change to one of its fields or to a *)
(* context field of a record of the hop-1 lookup                             *)

ProbeRecords ==
    { EmptyDict,
      [k \in {"id"} |-> I("5")],
      [k \in {"id", "title"} |-> IF k = "id" THEN S("5") ELSE S("")] }

ProbeRecordLists == UNION {[1..n -> ProbeRecords] : n \in 1..2}

ProbeMandatoryLists == {<<"id">>, <<"title", "id">>}

\* the keys of a derivative an edit can touch
ProbeKeys == {"generated_label", "generated_by", "generated_at", "parent_sha256",
              "ancestor_source_sha256", "id", "title"}

\* the values an edit can write
ProbeValues ==
    {S(""), S("5"), None, S(DEADBEEF)}
        \cup {S(h) : h \in source_hash_set} \cup {S(h) : h \in hop1_hash_set}

\* the mandatory fields that are not lineage fields
ContextFields == Range(mandatory_fields) \ Range(LineageKeys)

InitAudit ==
    /\ script = "llm"
    /\ records \in ProbeRecordLists
    /\ mandatory_fields \in ProbeMandatoryLists
    /\ pc = "built"
    /\ prov = <<>>
    /\ source_hashes = Hashes(records)
    /\ source_by_hash = ByHash(source_hashes, records)
    /\ prov_hop1 = [i \in 1..N |-> hop1_prov(records[i], mandatory_fields, source_hashes[i], "s1")]
    /\ hop1_hashes = Hashes(prov_hop1)
    /\ hop1_by_hash = ByHash(hop1_hashes, prov_hop1)
    /\ prov_hop2 = [i \in 1..N |->
                      hop2_prov(records[i], mandatory_fields, source_hashes[i], hop1_hashes[i], "i1")]
    /\ mut = <<>>
    /\ idx = <<>>
    /\ scenarios = <<>>
    /\ derived = EmptyDict
    /\ edits = 0
    /\ verdict = NoProbe
    /\ inj = NoInj
    /\ metrics = NoMetrics
    /\ fn = NoCall

AuditFrame == UNCHANGED <<input_vars, prov, prov_hop1, prov_hop2, source_hashes, source_by_hash,
                          hop1_hashes, mut, idx, scenarios, inj, metrics, fn>>

\* a built hop-1 or hop-2 record is taken up for audit
Present ==
    /\ pc = "built"
    /\ derived' \in Range(prov_hop1) \cup Range(prov_hop2)
    /\ pc' = "probe"
    /\ UNCHANGED <<hop1_by_hash, edits, verdict>>
    /\ AuditFrame

\* rec[key] = value
TamperSet ==
    /\ pc = "probe"
    /\ edits < MaxEdits
    /\ \E k \in ProbeKeys, v \in ProbeValues : derived' = Put(derived, k, v)
    /\ edits' = edits + 1
    /\ UNCHANGED <<pc, hop1_by_hash, verdict>>
    /\ AuditFrame

\* the record lacks the key
TamperDrop ==
    /\ pc = "probe"
    /\ edits < MaxEdits
    /\ \E k \in ProbeKeys \cap DOMAIN derived : derived' = Del(derived, k)
    /\ edits' = edits + 1
    /\ UNCHANGED <<pc, hop1_by_hash, verdict>>
    /\ AuditFrame

\* a context field of one record of the hop-1 lookup gets another value
TamperHop1 ==
    /\ pc = "probe"
    /\ hop1_by_hash = ByHash(hop1_hashes, prov_hop1)
    /\ \E h \in DOMAIN hop1_by_hash :
         hop1_by_hash' = [hop1_by_hash EXCEPT ![h] = Put(@, mandatory_fields[1], S("zz"))]
    /\ mandatory_fields[1] \in ContextFields
    /\ UNCHANGED <<pc, derived, edits, verdict>>
    /\ AuditFrame

\* the three audits are applied to the derivative
AuditProbe ==
    /\ pc = "probe"
    /\ verdict' = [one |-> audit_one_hop(source_hash_set, source_by_hash, derived, mandatory_fields),
                   rec |-> audit_record(source_hash_set, source_by_hash, derived, mandatory_fields),
                   two |-> audit_two_hop(source_hash_set, source_by_hash, hop1_hash_set,
                                         hop1_by_hash, derived, mandatory_fields)]
    /\ pc' = "audited"
    /\ UNCHANGED <<derived, hop1_by_hash, edits>>
    /\ AuditFrame

NextAudit == Present \/ TamperSet \/ TamperDrop \/ TamperHop1 \/ AuditProbe

SpecAudit == InitAudit /\ [][NextAudit]_vars

-----------------------------------------------------------------------------
(* inject_indices as a function *)

Fractions == {<<0, 1>>, <<1, 10>>, <<1, 5>>, <<1, 2>>, <<2, 3>>, <<1, 1>>}

InitInject ==
    /\ script = "extended"
    /\ records = <<>>
    /\ mandatory_fields = <<>>
    /\ pc = "inject"
    /\ prov = <<>>
    /\ prov_hop1 = <<>>
    /\ prov_hop2 = <<>>
    /\ source_hashes = <<>>
    /\ source_by_hash = EmptyDict
    /\ hop1_hashes = <<>>
    /\ hop1_by_hash = EmptyDict
    /\ mut = <<>>
    /\ idx = <<>>
    /\ scenarios = <<>>
    /\ derived = EmptyDict
    /\ edits = 0
    /\ verdict = NoProbe
    /\ inj = NoInj
    /\ metrics = NoMetrics
    /\ fn = NoCall

\* idx = inject_indices(n, frac, seed)
InjectIndices ==
    /\ pc = "inject"
    /\ \E n \in 0..MaxN, frac \in Fractions :
         \E shuffled \in Shuffles(n) :
            inj' = [n |-> n, frac |-> frac, shuffled |-> shuffled,
                    out |-> inject_indices(n, frac, shuffled)]
    /\ pc' = "injected"
    /\ UNCHANGED <<input_vars, prov, prov_hop1, prov_hop2, hash_vars, mut, idx, scenarios,
                   derived, edits, verdict, metrics, fn>>

\* fractions outside [0, 1] as well
AnyFractions == Fractions \cup {<<3, 2>>, <<0 - 1, 2>>}

\* seeds the scenarios pass
Seeds == {61, 71}

\* mutant: rng = random.Random(), a generator that is not seeded: each call
\* shuffles in its own way
seeded_shuffle_unseeded(rng, seed, call) == rng[IF call = 1 THEN 61 ELSE 71]

\* rng = random.Random(seed); rng.shuffle(idxs): the order is a function of the
\* seed (and of n), the same at every call
seeded_shuffle(rng, seed, call) == rng[seed]

\* two calls of inject_indices with the same n and frac, under a generator
\* that maps each seed to some order
InjectTwice ==
    /\ pc = "inject"
    /\ \E n \in 0..MaxN, frac \in AnyFractions :
         \E rng \in [Seeds -> Shuffles(n)], seed \in Seeds, seed2 \in Seeds :
            inj' = [n |-> n, frac |-> frac, seed |-> seed, seed2 |-> seed2,
                    out |-> inject_indices(n, frac, seeded_shuffle(rng, seed, 1)),
                    out2 |-> inject_indices(n, frac, seeded_shuffle(rng, seed2, 2))]
    /\ pc' = "injected_twice"
    /\ UNCHANGED <<input_vars, prov, prov_hop1, prov_hop2, hash_vars, mut, idx, scenarios,
                   derived, edits, verdict, metrics, fn>>

NextInject == InjectIndices \/ InjectTwice

SpecInject == InitInject /\ [][NextInject]_vars

-----------------------------------------------------------------------------
(* The functions one call at a time: the fingerprint of a dict, the          *)
(* serialise-and-parse round trip, the root fingerprint of a rebuilt         *)
(* derivative set, and the audits on an arbitrary derivative                 *)

InitFn ==
    /\ script = "extended"
    /\ records = <<>>
    /\ mandatory_fields = <<>>
    /\ pc = "call"
    /\ prov = <<>>
    /\ prov_hop1 = <<>>
    /\ prov_hop2 = <<>>
    /\ source_hashes = <<>>
    /\ source_by_hash = EmptyDict
    /\ hop1_hashes = <<>>
    /\ hop1_by_hash = EmptyDict
    /\ mut = <<>>
    /\ idx = <<>>
    /\ scenarios = <<>>
    /\ derived = EmptyDict
    /\ edits = 0
    /\ verdict = NoProbe
    /\ inj = NoInj
    /\ metrics = NoMetrics
    /\ fn = NoCall

FnFrame == UNCHANGED <<input_vars, prov, prov_hop1, prov_hop2, hash_vars, mut, idx, scenarios,
                       derived, edits, verdict, inj, metrics>>

\* dicts with their insertion order: up to three of the keys, str and int values
ItemKeys == {"id", "title", "api_link"}
ItemValues == {S("a"), I("5")}
OrderedDicts ==
    {items \in UNION {[1..n -> ItemKeys \X ItemValues] : n \in 0..Cardinality(ItemKeys)} :
        \A a, b \in 1..Len(items) : a # b => items[a][1] # items[b][1]}

\* sha256_value(a), sha256_value(a) again, sha256_value(b), for two dicts over
\* the same keys
Fingerprint ==
    /\ pc = "call"
    /\ \E a \in OrderedDicts :
         \E b \in {x \in OrderedDicts : DOMAIN AsDict(x) = DOMAIN AsDict(a)} :
            fn' = [call |-> "sha256_value", a |-> a, b |-> b,
                   digest_a |-> sha256_value_items(a),
                   digest_a_again |-> sha256_value_items(a),
                   digest_b |-> sha256_value_items(b)]
    /\ pc' = "returned"
    /\ FnFrame

\* fixity_re and fixity_stability of eval_stream, for a non-empty source list
Fixity ==
    /\ pc = "call"
    /\ \E source \in RecordLists :
         /\ Len(source) >= 1
         /\ LET hashes == Hashes(source)
                tokens == canonical_json_tokens(source)
                re == fixity_re(source)
            IN fn' = [call |-> "fixity", source |-> source, hashes |-> hashes,
                      text |-> TokensText(tokens, 1),
                      parsed |-> json_loads(tokens),
                      re |-> re,
                      fixity_stability |-> Rate(fixity_stable_count(hashes, re), Len(source))]
    /\ pc' = "returned"
    /\ FnFrame

\* the values a source field can be changed to
ChangedValues == {S(""), S("a"), S("zz")}

\* root1 of eval_stream for a source list, and for the list with one field of
\* one record changed, both built with the same generated_at
RootOfChanged ==
    /\ pc = "call"
    /\ \E source \in LoaderRecordLists, fields \in MandatoryLists :
         \E i \in 1..Len(source) :
            \E k \in DOMAIN source[i], v \in ChangedValues :
               /\ v # source[i][k]
               /\ LET changed == [source EXCEPT ![i] = Put(@, k, v)]
                  IN fn' = [call |-> "root", source |-> source, changed |-> changed,
                            fields |-> fields, key |-> k,
                            root |-> root_hash(build_prov(source, Hashes(source),
                                                          fields, GeneratedAt)),
                            changed_root |-> root_hash(build_prov(changed, Hashes(changed),
                                                                  fields, GeneratedAt))]
    /\ pc' = "returned"
    /\ FnFrame

\* the source snapshots the audited derivative is judged against
OutcomeRecordLists ==
    { <<[k \in {"id"} |-> I("5")]>>,
      <<[k \in {"id", "title"} |-> IF k = "id" THEN S("5") ELSE S("")], EmptyDict>> }

\* a field that the derivative does not hold
Absent == <<"absent", "">>

\* the derivative with the chosen value, or none, under each key
DerivedOf(choice) == [k \in {x \in DOMAIN choice : choice[x] # Absent} |-> choice[k]]

\* the three audits on an arbitrary derivative: any subset of the fields, str,
\* int and None values, pointers known and unknown
AuditOutcome ==
    /\ pc = "call"
    /\ \E recs \in OutcomeRecordLists, fields \in ProbeMandatoryLists :
         LET hs == Hashes(recs)
             by == ByHash(hs, recs)
             h1 == [i \in 1..Len(recs) |-> hop1_prov(recs[i], fields, hs[i], "s1")]
             h1h == Hashes(h1)
             h1by == ByHash(h1h, h1)
         IN \E label \in {Absent, S(""), S("DERIVED_RECORD")},
               by_ \in {Absent, S("x")},
               at \in {Absent, I("0"), S(GeneratedAt)},
               parent \in {Absent, None, S(DEADBEEF), S(hs[1]), S(h1h[1])},
               ancestor \in {Absent, I("5"), S(hs[1]), S(hs[Len(hs)])},
               id \in {Absent, S("5"), I("5"), None},
               title \in {Absent, S("")} :
               LET d == DerivedOf([k \in {"generated_label", "generated_by", "generated_at",
                                          "parent_sha256", "ancestor_source_sha256",
                                          "id", "title"} |->
                                      CASE k = "generated_label" -> label
                                        [] k = "generated_by" -> by_
                                        [] k = "generated_at" -> at
                                        [] k = "parent_sha256" -> parent
                                        [] k = "ancestor_source_sha256" -> ancestor
                                        [] k = "id" -> id
                                        [] OTHER -> title])
               IN fn' = [call |-> "audit", source |-> recs, fields |-> fields, derived |-> d,
                         rec |-> audit_record_outcome(Range(hs), by, d, fields),
                         one |-> audit_one_hop_outcome(Range(hs), by, d, fields),
                         two |-> audit_two_hop_outcome(Range(hs), by, Range(h1h), h1by,
                                                       d, fields)]
    /\ pc' = "returned"
    /\ FnFrame

\* source records for the builders: the loaded ones, and records that carry a
\* field named like one the builder writes
BuildRecords ==
    SourceRecords \cup
    { [k \in {"id", "summary"} |-> IF k = "id" THEN S("a") ELSE S("source text")],
      [k \in {"id", "generated_by"} |-> IF k = "id" THEN I("5") ELSE S("someone")] }

\* mandatory-field lists: the configured kind, and lists naming a lineage field
BuildFieldLists == MandatoryLists \cup {<<"generated_by">>, <<"id", "parent_sha256">>}

ParentHashes == {sha256_value(r) : r \in LoaderRecords}

\* transform_provenance(rec, fields, parent, generated_at), and run_stream's
\* hop-1 and hop-2 records for the same source record
Build ==
    /\ pc = "call"
    /\ \E rec \in BuildRecords, fields \in BuildFieldLists, parent \in ParentHashes,
          summary \in LlmTexts :
         LET hop1 == hop1_prov(rec, fields, parent, summary)
         IN fn' = [call |-> "build", rec |-> rec, fields |-> fields, parent |-> parent,
                   summary |-> summary,
                   out |-> transform_provenance(rec, fields, parent, GeneratedAt),
                   hop1 |-> hop1,
                   hop2 |-> hop2_prov(rec, fields, parent, sha256_value(hop1), "i1")]
    /\ pc' = "returned"
    /\ FnFrame

\* the largest collection scored on its own
MaxScoreN == 22

\* scenario_result on n records of which the first or the last f fail the
\* audit, with no injected indices (the baseline) or the ones inject_indices
\* selects at 0.10 or 0.20 from the unshuffled range
ScoreScenario ==
    /\ pc = "call"
    /\ \E n \in 1..MaxScoreN, f \in 0..MaxScoreN, first \in BOOLEAN,
          frac \in {<<0, 1>>, <<1, 10>>, <<1, 5>>} :
         /\ f <= n
         /\ LET injected == IF frac = <<0, 1>> THEN <<>>
                            ELSE inject_indices(n, frac, [i \in 1..n |-> i - 1])
                answers == [i \in 1..n |-> IF first THEN i > f ELSE i <= n - f]
            IN fn' = [call |-> "scenario_result", n |-> n, injected |-> injected,
                      answers |-> answers,
                      result |-> scenario_result("scored", [i \in 1..n |-> EmptyDict],
                                                 injected, answers)]
    /\ pc' = "returned"
    /\ FnFrame

NextFn == Fingerprint \/ Fixity \/ RootOfChanged \/ AuditOutcome \/ Build \/ ScoreScenario

SpecFn == InitFn /\ [][NextFn]_vars

-----------------------------------------------------------------------------
(* The worked example: ten source records over id and title, mandatory       *)
(* fields [id, title], the orphan-parent scenario at fraction 0.2            *)

ExampleIds == <<"0", "1", "2", "3", "4", "5", "6", "7", "8", "9">>

\* three collections: one title for all, the id as title, every other title ""
ExampleTitles ==
    { [i \in 1..Len(ExampleIds) |-> "t"],
      [i \in 1..Len(ExampleIds) |-> ExampleIds[i]],
      [i \in 1..Len(ExampleIds) |-> IF i % 2 = 0 THEN "" ELSE "t"] }

ExampleRecordLists ==
    { [i \in 1..Len(ExampleIds) |->
          [k \in {"id", "title"} |-> IF k = "id" THEN S(ExampleIds[i]) ELSE S(t[i])]] :
      t \in ExampleTitles }

\* an order rng.shuffle can leave list(range(n)) in, for each choice of the
\* first two elements (the ones inject_indices keeps at fraction 0.2)
ExampleShuffles ==
    { <<a, b>> \o Sorted((0..(N - 1)) \ {a, b}) :
        <<a, b>> \in {ab \in (0..(N - 1)) \X (0..(N - 1)) : ab[1] # ab[2]} }

InitExample ==
    /\ script = "extended"
    /\ records \in ExampleRecordLists
    /\ mandatory_fields = <<"id", "title">>
    /\ pc = "start"
    /\ prov = <<>>
    /\ prov_hop1 = <<>>
    /\ prov_hop2 = <<>>
    /\ source_hashes = <<>>
    /\ source_by_hash = EmptyDict
    /\ hop1_hashes = <<>>
    /\ hop1_by_hash = EmptyDict
    /\ mut = <<>>
    /\ idx = <<>>
    /\ scenarios = <<>>
    /\ derived = EmptyDict
    /\ edits = 0
    /\ verdict = NoProbe
    /\ inj = NoInj
    /\ metrics = NoMetrics
    /\ fn = NoCall

\* idx = inject_indices(n, 0.2, seed); mut = copies; mut[i]["parent_sha256"] =
\* "deadbeef" * 8; scenario_result("orphan_parent_link", mut, idx)
ExampleOrphanParentLink ==
    /\ pc = "orphan" /\ script = "extended"
    /\ \E shuffled \in ExampleShuffles :
          ScenarioStep(shuffled, "orphan_parent_link", "done", <<1, 5>>, prov,
                       "parent_sha256", [p \in 1..N |-> S(DEADBEEF)])
    /\ Frame

NextExample == EvalStreamBuild \/ BaselineProvenance \/ ExampleOrphanParentLink

SpecExample == InitExample /\ [][NextExample]_vars

-----------------------------------------------------------------------------
(* bridge_echoes.py submit-rustchain: one call of cmd_submit_rustchain       *)

\* the payload file: absent, as write_attest_payload wrote it (a JSON object
\* with a report object), a JSON list, or text that is not JSON
PayloadFiles == {"missing", "written", "json_list", "not_json"}

\* the command line after the subcommand
ArgvLists == {<<>>, <<"--execute">>}

\* --node-url as a base and its trailing characters
NodeUrls == {<<"http://node:8099">>, <<"http://node:8099", "/">>, <<"http://node:8099", "/", "/">>}

\* what urlopen and resp.read() do with the request: a JSON body, no body, a
\* body that is not JSON, HTTPError, URLError (raised while connecting or
\* sending), TimeoutError (raised while waiting for or reading the response)
NetOutcomes == {"ok_json", "ok_empty", "bad_body", "HTTPError", "URLError", "TimeoutError"}

\* mutant: --execute declared with default=True
execute_flag_default_true(argv) == TRUE

\* add_argument("--execute", action="store_true")
execute_flag(argv) == "--execute" \in Range(argv)

\* node_url.rstrip("/")
RECURSIVE rstrip_slash(_)
rstrip_slash(url) ==
    IF Len(url) > 0 /\ url[Len(url)] = "/" THEN rstrip_slash(SubSeq(url, 1, Len(url) - 1))
    ELSE url

RECURSIVE Concat(_, _)
Concat(parts, i) == IF i > Len(parts) THEN "" ELSE parts[i] \o Concat(parts, i + 1)

target_url(node_url) == Concat(rstrip_slash(node_url), 1) \o "/attest/submit"

\* http_post_json: the request goes out, then the outcome decides
http_post_json(net) ==
    CASE net = "ok_json" -> [raised |-> "", response |-> "{\"ok\": true}"]
      [] net = "ok_empty" -> [raised |-> "", response |-> "{}"]
      [] net = "bad_body" -> [raised |-> "JSONDecodeError", response |-> ""]
      [] OTHER -> [raised |-> net, response |-> ""]

NoReturn == "none"
NoFile == "absent"

\* Nothing sent, nothing written: the result with the given return code or
\* the exception that left the function
SubmitNothing(rc, raised) ==
    [rc |-> rc, raised |-> raised, posts |-> <<>>, response_file |-> NoFile]

\* cmd_submit_rustchain(args): the return code, the exception that left the
\* function, the POSTs sent and the response file
submit_rustchain(payload, argv, node_url, net) ==
    IF payload = "missing" THEN SubmitNothing("2", "")
    ELSE IF payload = "not_json" THEN SubmitNothing(NoReturn, "JSONDecodeError")
    ELSE IF ~execute_flag(argv)
         THEN (IF payload = "json_list" THEN SubmitNothing(NoReturn, "AttributeError")
               ELSE SubmitNothing("0", ""))
    ELSE LET r == http_post_json(net)
             sent == <<target_url(node_url)>>
         IN IF r.raised \in {"HTTPError", "URLError"}
            THEN [rc |-> "1", raised |-> "", posts |-> sent, response_file |-> NoFile]
            ELSE IF r.raised # ""
            THEN [rc |-> NoReturn, raised |-> r.raised, posts |-> sent, response_file |-> NoFile]
            ELSE [rc |-> "0", raised |-> "", posts |-> sent, response_file |-> r.response]

InitSubmit ==
    /\ script = "bridge"
    /\ records = <<>>
    /\ mandatory_fields = <<>>
    /\ pc = "submit"
    /\ prov = <<>>
    /\ prov_hop1 = <<>>
    /\ prov_hop2 = <<>>
    /\ source_hashes = <<>>
    /\ source_by_hash = EmptyDict
    /\ hop1_hashes = <<>>
    /\ hop1_by_hash = EmptyDict
    /\ mut = <<>>
    /\ idx = <<>>
    /\ scenarios = <<>>
    /\ derived = EmptyDict
    /\ edits = 0
    /\ verdict = NoProbe
    /\ inj = NoInj
    /\ metrics = NoMetrics
    /\ \E payload \in PayloadFiles, argv \in ArgvLists, node_url \in NodeUrls, net \in NetOutcomes :
          fn = [call |-> "cmd_submit_rustchain", payload |-> payload, argv |-> argv,
                node_url |-> node_url, net |-> net, out |-> SubmitNothing(NoReturn, "")]

CmdSubmitRustchain ==
    /\ pc = "submit"
    /\ fn' = [fn EXCEPT !.out = submit_rustchain(fn.payload, fn.argv, fn.node_url, fn.net)]
    /\ pc' = "submitted"
    /\ FnFrame

NextSubmit == CmdSubmitRustchain

SpecSubmit == InitSubmit /\ [][NextSubmit]_vars

-----------------------------------------------------------------------------
(* llm_generate: one call, one loop iteration at a time                      *)

MaxRetries == 3

\* a text as its runs of whitespace and its words
Whitespace == {" ", "  ", "\n"}

\* what one requests.post can come to: an exception (connection, timeout), an
\* error status (raise_for_status), a body that is not an object, a body
\* without "response", and bodies whose "response" is blank, a word, or words
\* with whitespace around and between them
LlmResponses ==
    { [raises |-> "ConnectionError", text |-> <<>>],
      [raises |-> "HTTPError 500", text |-> <<>>],
      [raises |-> "AttributeError", text |-> <<>>],
      [raises |-> "", text |-> <<>>],
      [raises |-> "", text |-> <<" ", "\n">>],
      [raises |-> "", text |-> <<"one">>],
      [raises |-> "", text |-> <<" ", "two", "  ", "words", "\n">>] }

\* text.split()
RECURSIVE split(_, _)
split(text, i) ==
    IF i > Len(text) THEN <<>>
    ELSE IF text[i] \in Whitespace THEN split(text, i + 1)
    ELSE <<text[i]>> \o split(text, i + 1)

\* " ".join(words)
RECURSIVE join(_, _)
join(words, i) ==
    IF i > Len(words) THEN ""
    ELSE IF i = Len(words) THEN words[i]
    ELSE words[i] \o " " \o join(words, i + 1)

\* bool(text.strip()): some character is not whitespace
NonBlank(text) == \E i \in 1..Len(text) : text[i] \notin Whitespace

\* " ".join(text.split())
normalize(text) == join(split(text, 1), 1)

\* mutant: for attempt in range(1, retries + 2)
LastAttempt_one_more(retries) == retries + 1

\* for attempt in range(1, retries + 1): the number of the last attempt
LastAttempt(retries) == retries

NoText == <<"none">>

InitLlm ==
    /\ script = "llm"
    /\ records = <<>>
    /\ mandatory_fields = <<>>
    /\ pc = "llm_loop"
    /\ prov = <<>>
    /\ prov_hop1 = <<>>
    /\ prov_hop2 = <<>>
    /\ source_hashes = <<>>
    /\ source_by_hash = EmptyDict
    /\ hop1_hashes = <<>>
    /\ hop1_by_hash = EmptyDict
    /\ mut = <<>>
    /\ idx = <<>>
    /\ scenarios = <<>>
    /\ derived = EmptyDict
    /\ edits = 0
    /\ verdict = NoProbe
    /\ inj = NoInj
    /\ metrics = NoMetrics
    /\ \E retries \in 0..MaxRetries :
          fn = [call |-> "llm_generate", retries |-> retries, attempt |-> 0, requests |-> <<>>,
                last_err |-> "None", slept |-> 0, result |-> NoText, raised |-> ""]

\* one iteration of the loop: the request, then return the normalized text or
\* note the error and sleep
LlmAttempt ==
    /\ pc = "llm_loop"
    /\ fn.attempt < LastAttempt(fn.retries)
    /\ \E resp \in LlmResponses :
         LET attempt == fn.attempt + 1
             sent == Append(fn.requests, resp)
         IN IF resp.raises = "" /\ NonBlank(resp.text)
            THEN /\ fn' = [fn EXCEPT !.attempt = attempt, !.requests = sent,
                                     !.result = <<normalize(resp.text)>>]
                 /\ pc' = "returned"
            ELSE /\ fn' = [fn EXCEPT !.attempt = attempt, !.requests = sent,
                                     !.last_err = IF resp.raises = "" THEN "empty response"
                                                  ELSE resp.raises,
                                     !.slept = @ + attempt]
                 /\ pc' = "llm_loop"
    /\ FnFrame

\* the loop is over: raise RuntimeError(... last_err)
LlmGiveUp ==
    /\ pc = "llm_loop"
    /\ fn.attempt >= LastAttempt(fn.retries)
    /\ fn' = [fn EXCEPT !.raised = "RuntimeError"]
    /\ pc' = "raised"
    /\ FnFrame

NextLlm == LlmAttempt \/ LlmGiveUp

SpecLlm == InitLlm /\ [][NextLlm]_vars

\* every iteration ends: the request has timeout=120 and the sleep is finite
SpecLlmFair == SpecLlm /\ WF_vars(NextLlm)

-----------------------------------------------------------------------------
(* The stream evaluations and the audit probes together *)

InitAll == Init \/ InitAudit
NextAll == Next \/ NextAudit
SpecAll == InitAll /\ [][NextAll]_vars

-----------------------------------------------------------------------------
(* Properties *)

LastScenario == scenarios[Len(scenarios)]
After(names) == Len(scenarios) >= 1 /\ LastScenario.scenario \in names
BaselineAllPass == Len(scenarios) >= 1 /\ scenarios[1].failed_count = 0

\* the indices of the last mutated collection that fail the audit
FailedNow == {i \in 0..(Len(mut) - 1) : ~CheckOf(mut[i + 1])}

IsOne(rate) == ~rate.null /\ rate.num = rate.den
IsZero(rate) == ~rate.null /\ rate.num = 0

\* C1 (as claimed): every derivative the lineage builder makes from a loaded
\* source record, with that record's fingerprint as parent and a non-empty
\* timestamp, passes the one-hop audit against the source fingerprints,
\* whatever the record holds and whatever the mandatory field names are.
C1_OneHopAccept ==
    /\ \A i \in 1..Len(prov) :
          audit_record(source_hash_set, source_by_hash, prov[i], mandatory_fields)
    /\ \A i \in 1..Len(prov_hop1) :
          audit_one_hop(source_hash_set, source_by_hash, prov_hop1[i], mandatory_fields)

\* C2: after the orphan-parent scenario on a baseline in which every derivative
\* passes, the records that fail the audit are exactly the injected ones, and
\* the scenario reports detection_recall = 1.0 and false_positive_rate = 0.0.
C2_OrphanParent ==
    (After({"orphan_parent_link", "two_hop_orphan_parent_link"}) /\ BaselineAllPass) =>
        /\ FailedNow = Range(idx)
        /\ IsOne(LastScenario.detection_recall)
        /\ IsZero(LastScenario.false_positive_rate)

C2_Witness ==
    /\ After({"orphan_parent_link", "two_hop_orphan_parent_link"})
    /\ BaselineAllPass
    /\ Range(idx) # {}
    /\ \E i \in 0..(N - 1) : i \notin Range(idx)
    /\ \A i \in Range(idx) : mut[i + 1]["parent_sha256"] = S(DEADBEEF)

\* C4 (as claimed): after a context-erasure scenario on a baseline in which
\* every derivative passes, the records that fail the audit are exactly the
\* injected ones, also when the source's value of the blanked field is "".
C4_ErasureAsClaimed ==
    (After({"mandatory_context_erasure", "two_hop_context_erasure"}) /\ BaselineAllPass) =>
        FailedNow = Range(idx)

\* C4 (amended): after a context-erasure scenario on a baseline in which every
\* derivative passes, a record fails the audit exactly when it is injected and
\* its source's value of the blanked field, as text and with a missing field
\* read as "", is not the empty string; no record outside the injected set fails.
C4_ErasureAmended ==
    (After({"mandatory_context_erasure", "two_hop_context_erasure"}) /\ BaselineAllPass) =>
        FailedNow = {i \in Range(idx) :
                        Str(Get(records[i + 1], mandatory_fields[1], S(""))) # S("")}

C4_Witness ==
    /\ After({"mandatory_context_erasure", "two_hop_context_erasure"})
    /\ BaselineAllPass
    /\ N >= 2
    /\ \E i \in Range(idx) : Get(records[i + 1], mandatory_fields[1], S("")) = S("")
    /\ \A i \in Range(idx) : mut[i + 1][mandatory_fields[1]] = S("")
    /\ FailedNow = {}

\* the derivative's pointer fields as stored, and what they resolve to
ParentOf(d) == Get(d, "parent_sha256", None)
AncestorOf(d) == Get(d, "ancestor_source_sha256", None)
KnownSource(v) == v \in {S(h) : h \in source_hash_set}
KnownHop1(v) == v \in {S(h) : h \in hop1_hash_set}

\* the built hop-1 lookup, before any change to it
BuiltHop1ByHash == ByHash(hop1_hashes, prov_hop1)

\* C3: audit_two_hop rejects every derivative whose parent_sha256 is a known
\* hop-1 fingerprint and whose ancestor_source_sha256 is a known source
\* fingerprint when the resolved hop-1 record's own parent_sha256 differs from
\* the derivative's ancestor_source_sha256.
C3_ChainConsistency ==
    (/\ pc = "audited"
     /\ KnownHop1(ParentOf(derived))
     /\ KnownSource(AncestorOf(derived))
     /\ ParentOf(hop1_by_hash[ParentOf(derived)[2]]) # AncestorOf(derived))
        => ~verdict.two

\* both pointers resolve, every lineage field is present, the context equals
\* the claimed ancestor's, and only the middle link points elsewhere
C3_Witness ==
    /\ pc = "audited"
    /\ KnownHop1(ParentOf(derived))
    /\ KnownSource(AncestorOf(derived))
    /\ ParentOf(hop1_by_hash[ParentOf(derived)[2]]) # AncestorOf(derived)
    /\ lineage_complete(derived)
    /\ DOMAIN source_by_hash[AncestorOf(derived)[2]] # {}
    /\ ContextPreserved(derived, source_by_hash[AncestorOf(derived)[2]], mandatory_fields)
    /\ ~verdict.two

\* a mandatory field whose value in d is not exactly the value in src: another
\* type, another text, or present in one and absent in the other
DiffersExactly(d, src, f) ==
    \/ (f \in DOMAIN d) # (f \in DOMAIN src)
    \/ f \in DOMAIN d /\ f \in DOMAIN src /\ d[f] # src[f]

DiffersAsText(d, src, f) == Str(Get(d, f, S(""))) # Str(Get(src, f, S("")))

C6_LineageCompleteness ==
    /\ (/\ pc = "audited"
        /\ \E i \in 1..Len(LineageKeys) :
              LineageKeys[i] \notin DOMAIN derived \/ derived[LineageKeys[i]] = S(""))
          => (~verdict.one /\ ~verdict.rec /\ ~verdict.two)
    /\ After({"missing_generated_by", "generated_label_stripped",
              "two_hop_generated_label_stripped"})
          => (Range(idx) \subseteq FailedNow /\ IsOne(LastScenario.detection_recall))

\* a derivative that lacks nothing but its label is rejected by every audit
C6_Witness ==
    /\ pc = "audited"
    /\ Get(derived, "generated_label", S("")) = S("")
    /\ \A i \in 2..Len(LineageKeys) : Truthy(Get(derived, LineageKeys[i], None))
    /\ KnownHop1(ParentOf(derived))
    /\ KnownSource(AncestorOf(derived))
    /\ ~verdict.one /\ ~verdict.rec /\ ~verdict.two

\* C7: audit_two_hop rejects every derivative whose parent_sha256 is not a
\* hop-1 fingerprint, also when it is a known source fingerprint.
C7_ParentInHop1Set ==
    (pc = "audited" /\ ~KnownHop1(ParentOf(derived))) => ~verdict.two

\* the parent is a source fingerprint, the ancestor resolves, the context is the
\* ancestor's: nothing but the parent's set is wrong
C7_Witness ==
    /\ pc = "audited"
    /\ KnownSource(ParentOf(derived))
    /\ ~KnownHop1(ParentOf(derived))
    /\ KnownSource(AncestorOf(derived))
    /\ lineage_complete(derived)
    /\ DOMAIN source_by_hash[AncestorOf(derived)[2]] # {}
    /\ ContextPreserved(derived, source_by_hash[AncestorOf(derived)[2]], mandatory_fields)
    /\ ~verdict.two

\* C8: audit_two_hop rejects every derivative whose ancestor_source_sha256 is
\* absent, empty or not a source fingerprint, also when its four other lineage
\* fields are present and its parent resolves to a known hop-1 record.
C8_AncestorRequired ==
    (pc = "audited" /\ ~KnownSource(AncestorOf(derived))) => ~verdict.two

C8_Witness ==
    /\ pc = "audited"
    /\ "ancestor_source_sha256" \notin DOMAIN derived
    /\ lineage_complete(derived)
    /\ KnownHop1(ParentOf(derived))
    /\ DOMAIN hop1_by_hash[ParentOf(derived)[2]] # {}
    /\ ~verdict.two

\* C9: audit_two_hop accepts only a derivative whose mandatory fields equal
\* those of the source record its ancestor_source_sha256 resolves to, and its
\* result is the one it gives with the hop-1 lookup as built: changing the
\* context field values stored in a hop-1 record changes nothing.
C9_FidelityAgainstAncestor ==
    pc = "audited" =>
        /\ verdict.two =>
              /\ KnownSource(AncestorOf(derived))
              /\ ContextPreserved(derived, source_by_hash[AncestorOf(derived)[2]], mandatory_fields)
        /\ verdict.two = audit_two_hop(source_hash_set, source_by_hash, hop1_hash_set,
                                       BuiltHop1ByHash, derived, mandatory_fields)

\* an accepted derivative whose resolved hop-1 record holds another context
C9_Witness ==
    /\ pc = "audited"
    /\ verdict.two
    /\ hop1_by_hash # BuiltHop1ByHash
    /\ ~ContextPreserved(derived, hop1_by_hash[ParentOf(derived)[2]], mandatory_fields)

\* ceil(n * frac) for frac = <<numerator, denominator>>
CeilTimes(n, frac) == (n * frac[1] + frac[2] - 1) \div frac[2]

\* strictly increasing, hence distinct
Increasing(seq) == \A a, b \in 1..Len(seq) : a < b => seq[a] < seq[b]

\* C10 (as claimed): for every n >= 0 and every fraction in [0, 1],
\* inject_indices returns exactly ceil(n * fraction) distinct indices.
C10_CeilCount ==
    pc = "injected" => (Len(inj.out) = CeilTimes(inj.n, inj.frac) /\ Increasing(inj.out))

\* C10 (amended): for every n >= 0 and every fraction in [0, 1], inject_indices
\* returns exactly min(n, max(1, floor(n * fraction))) distinct indices.
C10_FloorCount ==
    pc = "injected" =>
        /\ Len(inj.out) = Min2(inj.n, Max2(1, (inj.n * inj.frac[1]) \div inj.frac[2]))
        /\ Increasing(inj.out)
        /\ Range(inj.out) \subseteq 0..(inj.n - 1)

\* three records at fraction 1/2: one index, where the ceiling is two
C10_Witness ==
    /\ pc = "injected"
    /\ inj.n = 3
    /\ inj.frac = <<1, 2>>
    /\ Len(inj.out) = 1
    /\ CeilTimes(inj.n, inj.frac) = 2

\* the derivative list the scenarios of the running program copy
Original == IF script = "extended" THEN prov ELSE prov_hop2

\* the field a scenario writes on its injected records
ScenarioKey(name) ==
    CASE name \in {"orphan_parent_link", "two_hop_orphan_parent_link"} -> "parent_sha256"
      [] name = "missing_generated_by" -> "generated_by"
      [] name = "two_hop_ancestor_mismatch" -> "ancestor_source_sha256"
      [] name \in {"mandatory_context_erasure", "two_hop_context_erasure"} -> mandatory_fields[1]
      [] name \in {"generated_label_stripped", "two_hop_generated_label_stripped"} -> "generated_label"
      [] OTHER -> ""

\* C11: every fault scenario leaves the source records and the original
\* derivative lists (prov_records, prov_hop1, prov_hop2) as they were, and its
\* mutated list equals the original at every non-injected index and, at an
\* injected index, in every field but the one the scenario writes: no write of
\* an earlier scenario is visible in a later one.
C11_IndependentCopies ==
    [][(pc \in {"baseline", "orphan", "missing_by", "ancestor", "erasure", "label"}
          /\ pc' # "raised") =>
        /\ records' = records
        /\ prov' = prov
        /\ prov_hop1' = prov_hop1
        /\ prov_hop2' = prov_hop2
        /\ Len(mut') = Len(Original)
        /\ \A p \in 1..Len(mut') :
              IF (p - 1) \in Range(idx')
              THEN \A k \in DOMAIN Original[p] \ {ScenarioKey(scenarios'[Len(scenarios')].scenario)} :
                      k \in DOMAIN mut'[p] /\ mut'[p][k] = Original[p][k]
              ELSE mut'[p] = Original[p]]_vars

\* a third scenario has written to its copy, and the original still has the
\* parent pointers the orphan scenario overwrote in its own copy
C11_Witness ==
    /\ Len(scenarios) >= 3
    /\ N >= 2
    /\ idx # <<>>
    /\ \E p \in 1..Len(mut) : mut[p] # Original[p]
    /\ \A p \in 1..Len(Original) : Original[p]["parent_sha256"] # S(DEADBEEF)

\* the rate r is the fraction a / b
SameRate(r, a, b) == ~r.null /\ r.num * b = a * r.den

C13_DivisionGuards ==
    /\ (N >= 1 /\ mandatory_fields # <<>>) => pc # "raised"
    /\ \A i \in 1..Len(scenarios) :
          /\ scenarios[i].injected_count = 0 => scenarios[i].detection_recall.null
          /\ scenarios[i].injected_count = N => IsZero(scenarios[i].false_positive_rate)

\* C14 (as claimed): a stream of zero records is evaluated without raising and
\* reports zero scenarios.
C14_ZeroRecords ==
    (N = 0 /\ mandatory_fields # <<>> /\ pc # "start") => (pc = "done" /\ scenarios = <<>>)

C16_FingerprintDeterminism ==
    fn.call = "sha256_value" =>
        /\ fn.digest_a = fn.digest_a_again
        /\ AsDict(fn.a) = AsDict(fn.b) => fn.digest_a = fn.digest_b
        /\ fn.digest_a = sha256_value(AsDict(fn.a))

\* three pairs inserted in two different orders, one digest
C16_Witness ==
    /\ fn.call = "sha256_value"
    /\ Len(fn.a) = 3
    /\ fn.a # fn.b
    /\ fn.a[1][1] = "title"
    /\ AsDict(fn.a) = AsDict(fn.b)
    /\ fn.digest_a = fn.digest_b

\* C17: for every non-empty source list, parsing the canonical serialization
\* gives back every record, so each re-computed fingerprint equals the
\* original one and fixity_stability_rate is 1.0.
C17_RoundTrip ==
    fn.call = "fixity" =>
        /\ fn.parsed = fn.source
        /\ fn.re = fn.hashes
        /\ IsOne(fn.fixity_stability)
        /\ \A i \in 1..Len(fn.source) :
              TokensText(canonical_json_tokens(<<fn.source[i]>>), 1)
                  = "[" \o canonical_json(fn.source[i]) \o "]"

\* a list holding a record with an escaped text and a record with an int
C17_Witness ==
    /\ fn.call = "fixity"
    /\ Len(fn.source) = 2
    /\ Get(fn.source[1], "api_link", None) = S(QuotedText)
    /\ Get(fn.source[2], "id", None) = I("5")
    /\ fn.re = fn.hashes
    /\ IsOne(fn.fixity_stability)

C19_RootSensitivity ==
    fn.call = "root" => fn.root # fn.changed_root

\* the changed field is neither mandatory nor part of the summary
C19_Witness ==
    /\ fn.call = "root"
    /\ Len(fn.source) = 2
    /\ fn.key = "api_link"
    /\ fn.fields = <<"id">>
    /\ fn.root # fn.changed_root

C21_AncestorMismatch ==
    (After({"two_hop_ancestor_mismatch"}) /\ BaselineAllPass) =>
        \A i \in Range(idx) :
            /\ KnownSource(AncestorOf(mut[i + 1]))
            /\ AncestorOf(mut[i + 1]) # AncestorOf(prov_hop2[i + 1])
            /\ i \in FailedNow

\* the four lineage fields of a built record are the given ones
LineageAsGiven(d, by, parent) ==
    /\ Get(d, "generated_label", None) = S("DERIVED_RECORD")
    /\ Get(d, "generated_by", None) = S(by)
    /\ Get(d, "generated_at", None) = S(GeneratedAt)
    /\ Get(d, "parent_sha256", None) = S(parent)

\* C22 (as claimed): for every source record and every mandatory-field list,
\* the record the lineage builder returns has generated_label, generated_by,
\* generated_at and parent_sha256 present and equal to the label, generator,
\* timestamp and parent fingerprint it was given; copying the mandatory
\* fields never overwrites a lineage field.
C22_LineageGuarantee ==
    (pc = "returned" /\ fn.call = "build") =>
        /\ LineageAsGiven(fn.out, "deterministic_transform_v2", fn.parent)
        /\ LineageAsGiven(fn.hop1, "ollama:" \o MODEL_NAME, fn.parent)
        /\ LineageAsGiven(fn.hop2, "ollama:" \o MODEL_NAME, sha256_value(fn.hop1))

\* d is base, the record the builder writes before it copies anything, plus
\* the mandatory fields, each with the source's value or "", and nothing else
VerbatimCopy(d, base, rec, fields) ==
    /\ DOMAIN d = DOMAIN base \cup Range(fields)
    /\ \A f \in Range(fields) :
          d[f] = (IF f \in DOMAIN rec THEN rec[f] ELSE S(""))
    /\ \A k \in DOMAIN d \ Range(fields) : d[k] = base[k]

\* C23: for every mandatory field f the built derivative's value of f is the
\* source record's value of f when the source has f and the empty string when
\* it lacks f, and no other source field is copied (a source field outside
\* the list appears in the derivative only as a key the builder writes itself,
\* with the value the builder writes when it copies nothing).
C23_VerbatimCopy ==
    (pc = "returned" /\ fn.call = "build") =>
        /\ VerbatimCopy(fn.out,
                        transform_provenance(EmptyDict, <<>>, fn.parent, GeneratedAt),
                        fn.rec, fn.fields)
        /\ VerbatimCopy(fn.hop1,
                        hop1_prov(EmptyDict, <<>>, fn.parent, fn.summary),
                        fn.rec, fn.fields)
        /\ VerbatimCopy(fn.hop2,
                        hop2_prov(EmptyDict, <<>>, fn.parent, sha256_value(fn.hop1), "i1"),
                        fn.rec, fn.fields)

\* a source with one mandatory field present (an int) and one absent, and a
\* field of its own that the list does not name
C23_Witness ==
    /\ pc = "returned"
    /\ fn.call = "build"
    /\ fn.fields = <<"title", "id">>
    /\ fn.rec = [k \in {"id", "generated_by"} |-> IF k = "id" THEN I("5") ELSE S("someone")]
    /\ fn.out["id"] = I("5")
    /\ fn.out["title"] = S("")
    /\ fn.out["generated_by"] = S("deterministic_transform_v2")

\* C24 (as claimed): when one record of a batch holds a value the canonicalizer
\* cannot serialize and the others are fine, the record is skipped and the
\* stream evaluation does not fail: it fingerprints every other record and
\* goes on to its report.  Stated for batches with two or more good records and
\* a non-empty mandatory-field list, where nothing else stops the evaluation.
C24_EncodingPerRecord ==
    (/\ pc # "start"
     /\ BadCount(records) = 1
     /\ N - 1 >= 2
     /\ mandatory_fields # <<>>) =>
        /\ pc # "raised"
        /\ Len(source_hashes) = N - 1

Submitted == pc = "submitted" /\ fn.call = "cmd_submit_rustchain"
Execute == "--execute" \in Range(fn.argv)

ParentText(d) == Str(Get(d, "parent_sha256", S("")))[2]

\* the four conditions of the one-hop audit, each read the way the audit
\* compares: a lineage field is non-empty when it is truthy, and a mandatory
\* field equals the source's when the two are the same text, an absent field
\* read as ""
OneHopConditions(d) ==
    /\ \A i \in 1..Len(LineageKeys) :
          LineageKeys[i] \in DOMAIN d /\ Truthy(d[LineageKeys[i]])
    /\ ParentText(d) \in source_hash_set
    /\ ParentText(d) \in DOMAIN source_by_hash
    /\ \A i \in 1..Len(mandatory_fields) :
          ~DiffersAsText(d, source_by_hash[ParentText(d)], mandatory_fields[i])

\* C27 (as claimed): audit_record and audit_one_hop return true exactly when
\* the four lineage fields are present and non-empty, parent_sha256 is in the
\* known source fingerprint set, the parent resolves to a source record in the
\* lookup map, and every mandatory field of the derivative equals the resolved
\* source's.
C27_OneHopConjunction ==
    pc = "audited" =>
        /\ verdict.one = OneHopConditions(derived)
        /\ verdict.rec = OneHopConditions(derived)

\* C28 (as claimed): for every non-empty source collection and every pair of
\* model outputs, each hop-2 record run_stream builds has parent_sha256 equal
\* to the fingerprint of its hop-1 record and ancestor_source_sha256 equal to
\* that hop-1 record's parent_sha256, and passes audit_two_hop, so that the
\* two-hop baseline scenario reports zero failures.
C28_TwoHopBaseline ==
    (script = "llm" /\ pc \notin {"start", "raised"}) =>
        /\ \A i \in 1..N :
              /\ ParentOf(prov_hop2[i]) = S(sha256_value(prov_hop1[i]))
              /\ AncestorOf(prov_hop2[i]) = ParentOf(prov_hop1[i])
              /\ audit_two_hop(source_hash_set, source_by_hash, hop1_hash_set, hop1_by_hash,
                               prov_hop2[i], mandatory_fields)
        /\ Len(scenarios) >= 1 =>
              /\ scenarios[1].scenario = "two_hop_baseline_provenance"
              /\ scenarios[1].failed_count = 0

\* a response that makes llm_generate return
Answered(resp) == resp.raises = "" /\ NonBlank(resp.text)

LlmSafe ==
    fn.call = "llm_generate" =>
        /\ Len(fn.requests) <= fn.retries
        /\ pc = "returned" =>
              /\ Answered(fn.requests[Len(fn.requests)])
              /\ \A i \in 1..(Len(fn.requests) - 1) : ~Answered(fn.requests[i])
              /\ fn.result = <<normalize(fn.requests[Len(fn.requests)].text)>>
              /\ fn.raised = ""
        /\ pc = "raised" =>
              /\ Len(fn.requests) = fn.retries
              /\ \A i \in 1..Len(fn.requests) : ~Answered(fn.requests[i])
              /\ fn.raised = "RuntimeError"
              /\ fn.result = NoText

\* C29: llm_generate sends at most `retries` requests; it returns the
\* whitespace-normalized text of the first attempt whose response is
\* non-empty and sends no request after that; if every attempt raises or
\* returns empty text it raises RuntimeError after exactly `retries` attempts;
\* the call always ends, by a return or by that error.
C29_BoundedRetry ==
    /\ []LlmSafe
    /\ [][(pc \in {"returned", "raised"}) => (fn' = fn)]_vars
    /\ <>(pc \in {"returned", "raised"})

\* two failed attempts, an error and an empty text, then a text that comes
\* back normalized at the third and last attempt
C29_Witness ==
    /\ pc = "returned"
    /\ fn.call = "llm_generate"
    /\ fn.retries = 3
    /\ Len(fn.requests) = 3
    /\ fn.requests[1].raises = "ConnectionError"
    /\ fn.requests[2] = [raises |-> "", text |-> <<" ", "\n">>]
    /\ fn.requests[3].text = <<" ", "two", "  ", "words", "\n">>
    /\ fn.result = <<"two words">>
    /\ fn.slept = 3

\* floor(n * frac) for a fraction frac = <<numerator, denominator>>
FloorTimes(n, frac) == (n * frac[1]) \div frac[2]

\* the list is strictly increasing, within 0..n-1, and of the stated length
SelectionOf(out, n, frac) ==
    /\ \A a \in 1..Len(out) : out[a] \in 0..(n - 1)
    /\ \A a \in 1..(Len(out) - 1) : out[a] < out[a + 1]
    /\ Len(out) = Min2(n, Max2(1, FloorTimes(n, frac)))

\* C30: for every n >= 0, fraction and seed, inject_indices returns a strictly
\* increasing list of distinct indices, each in 0..n-1, of length
\* min(n, max(1, floor(n * fraction))), and two calls with the same
\* (n, fraction, seed) return the same list.
C30_IndexSelection ==
    pc = "injected_twice" =>
        /\ SelectionOf(inj.out, inj.n, inj.frac)
        /\ SelectionOf(inj.out2, inj.n, inj.frac)
        /\ inj.seed = inj.seed2 => inj.out = inj.out2

\* four records at fraction 1/2 and seed 61, twice: the same two indices
C30_Witness ==
    /\ pc = "injected_twice"
    /\ inj.n = 4
    /\ inj.frac = <<1, 2>>
    /\ inj.seed = 61
    /\ inj.seed2 = 61
    /\ inj.out = <<1, 3>>
    /\ inj.out2 = <<1, 3>>

\* a rate between 0 and 1: as the quotient of its two integers and as the
\* double the division gives
InUnit(rate) ==
    /\ 0 <= rate.num /\ rate.num <= rate.den /\ rate.den >= 1
    /\ FloatOf(rate) = FloatZero \/ FloatOf(rate) = FloatOne \/ FloatOf(rate).e <= 0

Scored == pc = "returned" /\ fn.call = "scenario_result"

RatesInUnit(r) ==
    /\ InUnit(r.audit_pass_rate)
    /\ InUnit(r.audit_fail_rate)
    /\ InUnit(r.false_positive_rate)
    /\ r.detection_recall.null \/ InUnit(r.detection_recall)
    /\ FloatAdd(FloatOf(r.audit_pass_rate), FloatOf(r.audit_fail_rate)) = FloatOne

\* C25 (as claimed): in every scenario result over n >= 1 records,
\* audit_pass_rate, audit_fail_rate and false_positive_rate lie in [0,1],
\* detection_recall is null or lies in [0,1], audit_pass_rate +
\* audit_fail_rate = 1, and failed_count = n * audit_fail_rate.
C25_RateBounds ==
    Scored =>
        /\ RatesInUnit(fn.result)
        /\ FloatMulInt(fn.n, FloatOf(fn.result.audit_fail_rate)) = FloatOfInt(fn.result.failed_count)

\* the next double above x > 0
FloatSucc(x) ==
    IF AllOnes(x.m) THEN [m |-> FloatOne.m, e |-> x.e + 1]
    ELSE [m |-> Increment(x.m, MantissaBits), e |-> x.e]

\* equal, or next to each other among the doubles
WithinOneUlp(x, y) ==
    \/ x = y
    \/ x # FloatZero /\ FloatSucc(x) = y
    \/ y # FloatZero /\ FloatSucc(y) = x

\* C25 (amended): in every scenario result over n >= 1 records,
\* audit_pass_rate, audit_fail_rate and false_positive_rate lie in [0,1],
\* detection_recall is null or lies in [0,1], audit_pass_rate +
\* audit_fail_rate = 1, and audit_fail_rate is failed_count / n, the quotient
\* of the two integers rounded once to a double; n * audit_fail_rate is
\* failed_count or a double next to it.
C25_RateBoundsAmended ==
    Scored =>
        /\ RatesInUnit(fn.result)
        /\ fn.result.audit_fail_rate = Rate(fn.result.failed_count, fn.n)
        /\ fn.result.audit_pass_rate = Rate(fn.n - fn.result.failed_count, fn.n)
        /\ WithinOneUlp(FloatMulInt(fn.n, FloatOf(fn.result.audit_fail_rate)),
                        FloatOfInt(fn.result.failed_count))

\* 22 records of which 15 fail: the rates add up to 1.0, and 22 * (15 / 22)
\* is the double below 15.0
C25_Witness ==
    /\ Scored
    /\ fn.n = 22
    /\ fn.result.failed_count = 15
    /\ fn.result.injected_count = 4
    /\ FloatAdd(FloatOf(fn.result.audit_pass_rate), FloatOf(fn.result.audit_fail_rate)) = FloatOne
    /\ FloatSucc(FloatMulInt(22, FloatOf(fn.result.audit_fail_rate))) = FloatOfInt(15)

====
